---- MODULE Spec2Model ----
(***************************************************************************)
(* Keplerian orbital-mechanics engine of src/src/features/                 *)
(* orbital_mechanics.py, as a state machine of a caller that holds one     *)
(* OrbitalElements record and invokes the engine's operations.             *)
(*                                                                         *)
(* Numbers.  The source computes in IEEE doubles; here every real is a     *)
(* fixed-point integer, and every operation rounds to its grid (floor),    *)
(* the way a double operation rounds to its ulp:                           *)
(*   radians, eccentricity, sin/cos, ratios : units of 1/SCALE             *)
(*   degrees                                 : units of 1/DEG_SCALE degree *)
(*   semi-major axis                         : units of 1/SCALE AU         *)
(*   kilometres                              : units of 10^4 km            *)
(*   datetime / timedelta                    : ticks, TICKS_PER_DAY a day  *)
(* A datetime is ordinal*TICKS_PER_DAY + tick of day, the ordinal being    *)
(* Python's proleptic Gregorian day number (0001-01-01 is day 1).  The     *)
(* finite range of datetime (years 1..9999) is not modelled.               *)
(***************************************************************************)
EXTENDS Integers, Sequences, FiniteSets, TLC

SCALE == 10000
DEG_SCALE == 1000
TICKS_PER_DAY == 100

\* math.pi, in units of 1/SCALE
PI == 31416
TWO_PI == 2 * PI
HALF_PI == PI \div 2

Abs(x) == IF x < 0 THEN -x ELSE x

\* x * y / SCALE rounded down, for |x| * |y| within the integer width.
Mul(x, y) == (x * y) \div SCALE

\* floor(a * b / c) for c > 0 without forming a * b when a is large:
\* a = q*c + r gives a*b/c = q*b + r*b/c.
MulDiv(a, b, c) == (a \div c) * b + ((a % c) * b) \div c

\* math.sqrt on integers: the largest r with r*r <= x (x >= 0).
RECURSIVE IsqrtIter(_, _, _)
IsqrtIter(x, lo, hi) ==
    IF lo >= hi THEN lo
    ELSE LET mid == (lo + hi + 1) \div 2
         IN IF mid <= x \div mid THEN IsqrtIter(x, mid, hi)
                                 ELSE IsqrtIter(x, lo, mid - 1)

Isqrt(x) == IF x <= 0 THEN 0 ELSE IsqrtIter(x, 1, 46340)

\* sin on [0, HALF_PI]: the Taylor series to x^9, each term got from the one
\* before it (t * x^2 / ((2k)(2k+1))) and rounded to the grid.
SinQuarter(x) ==
    LET x2 == Mul(x, x)
        t3 == Mul(x, x2) \div 6
        t5 == Mul(t3, x2) \div 20
        t7 == Mul(t5, x2) \div 42
        t9 == Mul(t7, x2) \div 72
    IN  x - t3 + t5 - t7 + t9

\* math.sin: range reduction to [0, TWO_PI), then the quadrant symmetries.
Sin(x) ==
    LET r == x % TWO_PI
    IN  IF r <= HALF_PI THEN SinQuarter(r)
        ELSE IF r <= PI THEN SinQuarter(PI - r)
        ELSE IF r <= PI + HALF_PI THEN -SinQuarter(r - PI)
        ELSE -SinQuarter(TWO_PI - r)

\* math.cos
Cos(x) == Sin(x + HALF_PI)

\* atan on [-tan(pi/8), tan(pi/8)]: the Taylor series to u^9.
AtanSmall(u) ==
    LET u2 == Mul(u, u)
        u3 == Mul(u, u2)
        u5 == Mul(u3, u2)
        u7 == Mul(u5, u2)
        u9 == Mul(u7, u2)
    IN  u - u3 \div 3 + u5 \div 5 - u7 \div 7 + u9 \div 9

\* atan on [0, 1]: above tan(pi/8) by atan t = pi/4 + atan((t - 1)/(t + 1)).
AtanUnit(t) ==
    IF t <= 4142 THEN AtanSmall(t)
    ELSE HALF_PI \div 2 + AtanSmall(((t - SCALE) * SCALE) \div (t + SCALE))

\* atan of the ratio p/q of two non-negative numbers, not both zero.
AtanRatio(p, q) ==
    IF p <= q THEN AtanUnit((p * SCALE) \div q)
    ELSE HALF_PI - AtanUnit((q * SCALE) \div p)

\* math.atan2(y, x), in (-PI, PI].
Atan2(y, x) ==
    IF x = 0 /\ y = 0 THEN 0
    ELSE IF x >= 0 /\ y >= 0 THEN AtanRatio(y, x)
    ELSE IF x >= 0 THEN -AtanRatio(-y, x)
    ELSE IF y >= 0 THEN PI - AtanRatio(y, -x)
    ELSE AtanRatio(-y, -x) - PI

(***************************************************************************)
(* Constants (orbital_mechanics.py lines 19-24)                            *)
(***************************************************************************)
\* AU_TO_KM = 149597870.7 km, in units of 10^4 km
AU_TO_KM == 14960

\* DEG_TO_RAD = pi/180 and RAD_TO_DEG = 180/pi between the degree grid and the
\* radian grid: PI / (180 * DEG_SCALE) = 31416/180000 = 1309/7500 in lowest
\* terms, so that 180 degrees is PI and 360 degrees TWO_PI, as in the source.
DegToRad(d) == MulDiv(d, PI \div 24, (180 * DEG_SCALE) \div 24)
RadToDeg(r) == MulDiv(r, (180 * DEG_SCALE) \div 24, PI \div 24)

(***************************************************************************)
(* OrbitalMechanics.solve_kepler_equation (lines 84-117)                   *)
(***************************************************************************)
\* tolerance = 1e-10 lies far above the rounding noise of one Newton update in
\* doubles (about 1e-15) and far below the angles themselves. On the grid one
\* update is off by up to 2/f_prime units, so the default is kept above that.
DEFAULT_TOLERANCE == 50
DEFAULT_MAX_ITER == 100

\* An initial guess that starts from M up to and including e = 0.8.
GuessFromMThrough08(M, e) == IF e <= 8000 THEN M ELSE PI

\* lines 102-105
InitialGuess(M, e) == IF e < 8000 THEN M ELSE PI

\* line 109: f = E - e * math.sin(E) - M
KeplerF(E, M, e) == E - Mul(e, Sin(E)) - M

\* line 110: f_prime = 1 - e * math.cos(E)
KeplerFPrime(E, e) == SCALE - Mul(e, Cos(E))

\* f / f_prime of line 111, for f_prime # 0.
Quotient(num, den) ==
    IF den > 0 THEN MulDiv(num, SCALE, den) ELSE MulDiv(-num, SCALE, -den)

\* line 111: E_new = E - f / f_prime
NewtonStep(E, M, e) == E - Quotient(KeplerF(E, M, e), KeplerFPrime(E, e))

\* A convergence test that accepts any step shorter than one radian.
ConvergedLoosely(E_new, E, tolerance) == Abs(E_new - E) < SCALE

\* line 113
Converged(E_new, E, tolerance) == Abs(E_new - E) < tolerance

\* How one pass of the loop of lines 108-117 ends, at iteration `it` with
\* estimate E: "exhausted" (the range is used up: line 117), "raised"
\* (ZeroDivisionError at line 111), "converged" (line 114) or "continue".
LoopExit(E, M, e, tolerance, max_iter, it) ==
    IF it >= max_iter THEN "exhausted"
    ELSE IF KeplerFPrime(E, e) = 0 THEN "raised"
    ELSE IF Converged(NewtonStep(E, M, e), E, tolerance) THEN "converged"
    ELSE "continue"

\* What the call yields when the loop ends that way: whether it raised, the
\* value returned, and the number of Newton updates made.
LoopResult(exit, E, M, e, it) ==
    [raised |-> exit = "raised",
     converged |-> exit = "converged",
     E |-> IF exit = "converged" THEN NewtonStep(E, M, e) ELSE E,
     iters |-> IF exit = "converged" THEN it + 1 ELSE it]

\* The loop of lines 108-117 from iteration `it` on.
RECURSIVE NewtonLoop(_, _, _, _, _, _)
NewtonLoop(E, M, e, tolerance, max_iter, it) ==
    IF LoopExit(E, M, e, tolerance, max_iter, it) # "continue"
    THEN LoopResult(LoopExit(E, M, e, tolerance, max_iter, it), E, M, e, it)
    ELSE NewtonLoop(NewtonStep(E, M, e), M, e, tolerance, max_iter, it + 1)

solve_kepler_equation(M, e, tolerance, max_iter) ==
    NewtonLoop(InitialGuess(M, e), M, e, tolerance, max_iter, 0)

(***************************************************************************)
(* datetime arithmetic used by the engine                                  *)
(***************************************************************************)
\* Days before 1 January of year y (datetime's _days_before_year).
DaysBeforeYear(y) ==
    (y - 1) * 365 + (y - 1) \div 4 - (y - 1) \div 100 + (y - 1) \div 400

\* datetime(y, 1, 1), in ticks.
NewYear(y) == (DaysBeforeYear(y) + 1) * TICKS_PER_DAY

\* The .year of a datetime (datetime's _ord2ymd): 400-, 100-, 4- and 1-year
\* cycles of the ordinal; the last day of a leap cycle belongs to the year before.
YearOf(t) ==
    LET n    == t \div TICKS_PER_DAY - 1
        n400 == n \div 146097
        r400 == n % 146097
        n100 == r400 \div 36524
        r100 == r400 % 36524
        n4   == r100 \div 1461
        r4   == r100 % 1461
        n1   == r4 \div 365
        y    == n400 * 400 + n100 * 100 + n4 * 4 + n1 + 1
    IN  IF n1 = 4 \/ n100 = 4 THEN y - 1 ELSE y

\* timedelta(days=d) for an integer d
Days(d) == d * TICKS_PER_DAY

(***************************************************************************)
(* OrbitalMechanics: anomaly conversion, radius, mean motion (119-169)     *)
(***************************************************************************)
\* line 132: beta = e / (1 + math.sqrt(1 - e**2)), for 0 <= e <= 1
Beta(e) == (e * SCALE) \div (SCALE + Isqrt((SCALE - Mul(e, e)) * SCALE))

\* lines 132-134
eccentric_to_true_anomaly(E, e) ==
    E + 2 * Atan2(Mul(Beta(e), Sin(E)), SCALE - Mul(Beta(e), Cos(E)))

\* line 149: a * (1 - e**2) / (1 + e * math.cos(nu)), in the units of a
orbital_radius(a, e, nu) ==
    (a * (SCALE - Mul(e, e))) \div (SCALE + Mul(e, Cos(nu)))

\* 365.25 days a year, in hundredths of a day
DAYS_PER_YEAR_X100 == 36525

\* lines 165-166 (and 284-285): period_years = sqrt(a**3) in 1/SCALE years,
\* period_days = period_years * 365.25 in ticks.
PeriodYears(a_au) == Isqrt(Mul(Mul(a_au, a_au), a_au) * SCALE)
PeriodDays(a_au) ==
    MulDiv(PeriodYears(a_au), DAYS_PER_YEAR_X100, (100 * SCALE) \div TICKS_PER_DAY)

\* line 169: 2 * pi / period_days, radians per day in units of 1/(100*SCALE)
mean_motion(a_au) == (TWO_PI * 100 * TICKS_PER_DAY) \div PeriodDays(a_au)

(***************************************************************************)
(* OrbitalMechanics.propagate_mean_anomaly (171-192)                       *)
(***************************************************************************)
\* line 190: n * dt for dt in ticks, in radians (1/SCALE)
MotionOver(n, dt) == MulDiv(n, dt, 100 * TICKS_PER_DAY)

\* A propagation that leaves the result unwrapped and in radians.
propagate_unwrapped_radians(el, target_time) ==
    LET dt == target_time - el.epoch
        n == mean_motion(el.semi_major_axis)
    IN  DegToRad(el.mean_anomaly) + MotionOver(n, dt)

propagate_mean_anomaly(el, target_time) ==
    LET dt    == target_time - el.epoch
        n     == mean_motion(el.semi_major_axis)
        M_new == (DegToRad(el.mean_anomaly) + MotionOver(n, dt)) % TWO_PI
    IN  RadToDeg(M_new)

(***************************************************************************)
(* OrbitalMechanics.orbital_elements_to_cartesian (194-261)                *)
(***************************************************************************)
\* An orbital-plane position with sine and cosine exchanged.
OrbitalPlaneSwapped(r, nu) == [x |-> Mul(r, Sin(nu)), y |-> Mul(r, Cos(nu))]

\* lines 236-237: position in the orbital plane
OrbitalPlane(r, nu) == [x |-> Mul(r, Cos(nu)), y |-> Mul(r, Sin(nu))]

\* lines 241-245: rotation by the argument of perihelion
RotatePerihelion(orbital, omega) ==
    [x |-> Mul(Cos(omega), orbital.x) - Mul(Sin(omega), orbital.y),
     y |-> Mul(Sin(omega), orbital.x) + Mul(Cos(omega), orbital.y),
     z |-> 0]

\* lines 248-252: rotation by the inclination
RotateInclination(p1, i) ==
    [x |-> p1.x, y |-> Mul(Cos(i), p1.y), z |-> Mul(Sin(i), p1.y)]

\* lines 255-259: rotation by the longitude of the ascending node
RotateNode(p2, Omega) ==
    [x |-> Mul(Cos(Omega), p2.x) - Mul(Sin(Omega), p2.y),
     y |-> Mul(Sin(Omega), p2.x) + Mul(Cos(Omega), p2.y),
     z |-> p2.z]

\* The rotations with the node applied in the plane and the perihelion last.
RotateNodeFirst(r, nu, omega, i, Omega) ==
    RotatePerihelion(
        RotateInclination(RotateNode([x |-> OrbitalPlane(r, nu).x,
                                      y |-> OrbitalPlane(r, nu).y, z |-> 0],
                                     Omega),
                          i),
        omega)

\* lines 235-261: the orbital-plane position rotated by omega, then by i, then
\* by Omega.
Rotate(r, nu, omega, i, Omega) ==
    RotateNode(RotateInclination(RotatePerihelion(OrbitalPlane(r, nu), omega),
                                 i),
               Omega)

\* target_time = NoTime stands for the omitted argument (None).
NoTime == -1

\* lines 217-221 and 233-261: the position at true anomaly nu
PositionAtTrueAnomaly(el, nu) ==
    Rotate(orbital_radius(Mul(el.semi_major_axis, AU_TO_KM), el.eccentricity, nu),
           nu,
           DegToRad(el.argument_perihelion),
           DegToRad(el.inclination),
           DegToRad(el.longitude_ascending_node))

\* lines 227-230: E from M by the solver with its defaults, nu from E
PositionAtMeanAnomaly(el, M) ==
    PositionAtTrueAnomaly(
        el,
        eccentric_to_true_anomaly(
            solve_kepler_equation(M, el.eccentricity, DEFAULT_TOLERANCE,
                                  DEFAULT_MAX_ITER).E,
            el.eccentricity))

\* lines 213-214 and 224
orbital_elements_to_cartesian(el, target_time) ==
    PositionAtMeanAnomaly(
        el,
        DegToRad(propagate_mean_anomaly(
            el, IF target_time = NoTime THEN el.epoch ELSE target_time)))

\* The cosine is rounded to the grid: a denominator 1 + e * cos(nu) within
\* CosSlack units of 0 is the 0.0 of the source.
CosSlack == 1

\* A check of the eccentricity before the geometry is computed.
OutcomeValidated(e, solved) ==
    IF e >= SCALE THEN "ValidationError" ELSE "value"

\* How a call of orbital_elements_to_cartesian ends once the solver has ended:
\* ZeroDivisionError out of the solver (line 111), ValueError at math.sqrt of
\* a negative 1 - e**2 (line 132), ZeroDivisionError at a zero
\* 1 + e * cos(nu) (line 149), or a value.
OutcomeAfterSolve(e, solved) ==
    IF solved.raised THEN "ZeroDivisionError"
    ELSE IF Mul(e, e) > SCALE THEN "ValueError"
    ELSE IF Abs(SCALE + Mul(e, Cos(eccentric_to_true_anomaly(solved.E, e))))
                <= CosSlack
         THEN "ZeroDivisionError"
    ELSE "value"

\* How a call of orbital_elements_to_cartesian ends: no statement of lines
\* 194-261 tests a or e; mean_motion raises ValueError at math.sqrt of a
\* negative a**3 (line 166) and ZeroDivisionError at a period of 0 (line 169).
CartesianOutcome(el, target_time) ==
    IF el.semi_major_axis < 0 THEN "ValueError"
    ELSE IF el.semi_major_axis = 0 THEN "ZeroDivisionError"
    ELSE OutcomeAfterSolve(
             el.eccentricity,
             solve_kepler_equation(
                 DegToRad(propagate_mean_anomaly(
                     el, IF target_time = NoTime THEN el.epoch ELSE target_time)),
                 el.eccentricity, DEFAULT_TOLERANCE, DEFAULT_MAX_ITER))

\* CartesianState.distance_from_origin (75-76) and the distance of lines 346-350
Norm(x, y, z) == Isqrt(x * x + y * y + z * z)

(***************************************************************************)
(* OrbitalElements records (27-56) and the example catalog (360-397).      *)
(* Only the fields the engine reads are kept, and the name.                *)
(***************************************************************************)
Elements(name, a, e, i, Omega, omega, M, epoch) ==
    [name |-> name, semi_major_axis |-> a, eccentricity |-> e,
     inclination |-> i, longitude_ascending_node |-> Omega,
     argument_perihelion |-> omega, mean_anomaly |-> M, epoch |-> epoch]

EXAMPLE_ASTEROIDS ==
    [k \in {"apophis", "bennu", "eros"} |->
        CASE k = "apophis" ->
               Elements("99942 Apophis", 9224, 1911, 3331, 204446, 126393,
                        180000, NewYear(2024))
          [] k = "bennu" ->
               Elements("101955 Bennu", 11260, 2037, 6035, 2060, 66223,
                        101700, NewYear(2024))
          [] k = "eros" ->
               Elements("433 Eros", 14580, 2229, 10829, 304300, 178900,
                        320000, NewYear(2024))]

\* sbdb_client.py lines 154-221: the fallback table, keyed by lower-case
\* designation
KNOWN_ASTEROID_ORBITS ==
    [k \in {"99942 apophis", "101955 bennu", "433 eros", "1862 apollo",
            "4179 toutatis"} |->
        CASE k = "99942 apophis" ->
               Elements("99942 Apophis", 9224, 1911, 3331, 204446, 126393,
                        180000, NewYear(2024))
          [] k = "101955 bennu" ->
               Elements("101955 Bennu", 11260, 2037, 6035, 2060, 66223,
                        101700, NewYear(2024))
          [] k = "433 eros" ->
               Elements("433 Eros", 14580, 2229, 10829, 304300, 178900,
                        320000, NewYear(2024))
          [] k = "1862 apollo" ->
               Elements("1862 Apollo", 14710, 5600, 6350, 35700, 285900,
                        45000, NewYear(2024))
          [] k = "4179 toutatis" ->
               Elements("4179 Toutatis", 25110, 6290, 447, 128200, 274800,
                        190000, NewYear(2024))]

\* the two module-level tables as the interpreter holds them after import
Catalogs ==
    [EXAMPLE_ASTEROIDS |-> EXAMPLE_ASTEROIDS,
     KNOWN_ASTEROID_ORBITS |-> KNOWN_ASTEROID_ORBITS]

(***************************************************************************)
(* Loop bodies of generate_orbit_points and calculate_close_approach       *)
(***************************************************************************)
\* i / num_points (lines 290 and 299), in units of 1/SCALE
Fraction(i, num_points) == (i * SCALE) \div num_points

\* lines 290-291: epoch + timedelta(days=(i / num_points) * period_days)
SampleTime(el, i, num_points) ==
    el.epoch + MulDiv(PeriodDays(el.semi_major_axis),
                      Fraction(i, num_points), SCALE)

\* lines 296-309: the point made of a state and the angle of the model Earth
PointOf(state, earth_angle, center_on_earth) ==
    IF center_on_earth
    THEN <<state.x - Mul(AU_TO_KM, Cos(earth_angle)),
           state.y - Mul(AU_TO_KM, Sin(earth_angle)),
           state.z>>
    ELSE <<state.x, state.y, state.z>>

\* line 341: (days_since_epoch / 365.25) * 2 * math.pi, for a count of days
AngleOfDays(days) ==
    Mul(((days * 100 * SCALE) \div DAYS_PER_YEAR_X100) * 2, PI)

\* A sampled point that takes the Earth's angle from the calendar day of the
\* sampled time.
SamplePointByCalendar(el, i, num_points, center_on_earth) ==
    PointOf(orbital_elements_to_cartesian(el, SampleTime(el, i, num_points)),
            AngleOfDays((SampleTime(el, i, num_points) - el.epoch)
                            \div TICKS_PER_DAY),
            center_on_earth)

\* lines 289-309: the point appended for index i
SamplePoint(el, i, num_points, center_on_earth) ==
    PointOf(orbital_elements_to_cartesian(el, SampleTime(el, i, num_points)),
            Mul(Fraction(i, num_points) * 2, PI),
            center_on_earth)

\* A day count that starts on 1 January 2023 and never starts again.
DaysSince2023(target_time) ==
    (target_time - NewYear(2023)) \div TICKS_PER_DAY

\* line 340: (target_time - datetime(target_time.year, 1, 1)).days
DaysSinceNewYear(target_time) ==
    (target_time - NewYear(YearOf(target_time))) \div TICKS_PER_DAY

\* line 341: (days_since_epoch / 365.25) * 2 * math.pi
EarthAngle(target_time) ==
    Mul(((DaysSinceNewYear(target_time) * 100 * SCALE)
            \div DAYS_PER_YEAR_X100) * 2, PI)

\* lines 342-350: the distance of a state from the model Earth at earth_angle
Separation(ast_state, earth_angle) ==
    Norm(ast_state.x - Mul(AU_TO_KM, Cos(earth_angle)),
         ast_state.y - Mul(AU_TO_KM, Sin(earth_angle)),
         ast_state.z)

\* lines 337-350: the distance between the asteroid and the model Earth
EarthDistance(el, target_time) ==
    Separation(orbital_elements_to_cartesian(el, target_time),
               EarthAngle(target_time))

\* float('inf') of line 329: above every distance
Inf == 2147483647

(***************************************************************************)
(* Bounds of the model and the inputs drawn within them                    *)
(***************************************************************************)
MaxDays == 5
MaxPoints == 4
EGrid == 19
MGrid == 48

\* datetime(2023, 12, 29): a window from it crosses 1 January
LateDecember == NewYear(2024) - Days(3)

\* The records a caller may hold: the example catalog, and records built by
\* the caller (a circular 1-AU orbit in phase with the model Earth, a highly
\* eccentric orbit, mean anomalies outside [0, 360), other epochs).
ElementsSet ==
    {EXAMPLE_ASTEROIDS[k] : k \in DOMAIN EXAMPLE_ASTEROIDS}
    \cup {Elements("twin", SCALE, 0, 0, 0, 0, 0, NewYear(2024)),
          Elements("twin-dec", SCALE, 0, 0, 0, 0, 357000, LateDecember),
          Elements("twin-late", SCALE, 0, 0, 0, 0, 356797, LateDecember),
          Elements("eccentric", SCALE, 9500, 0, 0, 0, 0, NewYear(2024)),
          Elements("negative", 9224, 1911, 3331, 204446, 126393, -90001,
                   NewYear(2024) + TICKS_PER_DAY \div 2),
          Elements("wrapped", 11260, 2037, 6035, 2060, 66223, 720000,
                   LateDecember),
          Elements("over", 14580, 2229, 10829, 304300, 178900, 450123,
                   NewYear(2025)),
          Elements("twin-eve", SCALE, 0, 0, 0, 0, 359015, NewYear(2024) - Days(1)),
          Elements("leap-eve", 9224, 1911, 3331, 204446, 126393, 10000,
                   NewYear(2025) - Days(2) + TICKS_PER_DAY \div 2)}

\* Offsets of a target time from the epoch, in ticks (before, at and after).
TimeOffsets ==
    {Days(-400), Days(-1), -1, 0, 1, TICKS_PER_DAY \div 2, Days(1), Days(30),
     Days(365), Days(500)}

\* Arguments of direct calls of the solver: eccentricities over [0, 0.95], the
\* two sides of the initial-guess threshold, and e = 1; mean anomalies over
\* [0, 2 pi) and two outside it.
SolveE == {(k * 9500) \div EGrid : k \in 0..EGrid} \cup {7999, 8000, SCALE}
SolveM == {(k * TWO_PI) \div MGrid : k \in 0..(MGrid - 1)} \cup {3 * PI, -PI}
SolveTolerance == {DEFAULT_TOLERANCE, 1}
SolveMaxIter == {DEFAULT_MAX_ITER, 0, 1, 2}

(***************************************************************************)
(* The caller                                                              *)
(***************************************************************************)
VARIABLES
    elements,       \* the OrbitalElements record the caller holds
    catalog,        \* the module-level tables EXAMPLE_ASTEROIDS and KNOWN_ASTEROID_ORBITS
    pc,             \* "idle", "loop" (inside a scan or a sampling), "returned", "raised"
    call,           \* the call in progress or just ended: its name and arguments
    ret,            \* what the call returned
    idx,            \* the loop variable: `i` of line 288, `day` of line 333
    points,         \* line 281
    min_distance,   \* line 329
    min_time,       \* line 330
    scanned,        \* history: the days evaluated so far, with their distances
    log,            \* history: what a lookup did so far (table consulted, client
                    \* created, request sent and its response, client closed)
    data,           \* sbdb_client.py line 242: what get_asteroid_data returned
    db,             \* the rows of the table `predictions`, oldest first
    alert_manager,  \* alerts.py: the fields of the AlertManager
    callers,        \* where each caller of check_and_alert stands
    now,            \* the clock read by datetime.utcnow(), in seconds
    sent,           \* history: the alerts the webhook accepted, with their times
    slots,          \* results of loop passes run out of order, by loop index
    memo            \* history: one earlier call and what it returned

vars == <<elements, catalog, pc, call, ret, idx, points, min_distance, min_time,
          scanned, log, data, db, alert_manager, callers, now, sent, slots, memo>>

alertVars == <<alert_manager, callers, now, sent>>

\* alerts.py line 41: the default of cooldown_seconds
DEFAULT_COOLDOWN == 300

\* The threads that may call check_and_alert on the one AlertManager.
Callers == {"caller1", "caller2"}

\* alerts.py lines 51-54 and 213: the module's AlertManager() as constructed
\* with the default settings (no webhook URL), nobody calling it
AlertsIdle ==
    /\ alert_manager = [webhook_url |-> "", min_risk_level |-> "High",
                        cooldown_seconds |-> DEFAULT_COOLDOWN,
                        last_alert_time |-> NoTime]
    /\ callers = [c \in Callers |-> [pc |-> "idle"]]
    /\ now = 0
    /\ sent = <<>>

None == [op |-> "none"]

Init ==
    /\ elements \in ElementsSet
    /\ catalog = Catalogs
    /\ AlertsIdle
    /\ pc = "idle"
    /\ call = None
    /\ ret = None
    /\ idx = 0
    /\ points = <<>>
    /\ min_distance = Inf
    /\ min_time = 0
    /\ scanned = <<>>
    /\ slots = <<>>
    /\ memo = None
    /\ log = <<>>
    /\ data = None
    /\ db = <<>>

world == <<catalog, log, data, db, alertVars>>
loopVars == <<idx, points, min_distance, min_time, scanned>>
auxVars == <<slots, memo>>

\* The caller gets what the solver yields: a value, or the exception.
SolveEnds(r) ==
    /\ ret' = r
    /\ pc' = IF r.raised THEN "raised" ELSE "returned"

\* A direct call of solve_kepler_equation with arguments from the given sets.
SolveWith(Ms, es, tolerances, max_iters) ==
    \E M \in Ms, e \in es, tolerance \in tolerances, max_iter \in max_iters :
        /\ pc = "idle"
        /\ call' = [op |-> "solve_kepler_equation", M |-> M, e |-> e,
                    tolerance |-> tolerance, max_iter |-> max_iter]
        /\ SolveEnds(solve_kepler_equation(M, e, tolerance, max_iter))
        /\ UNCHANGED <<elements, world, loopVars, auxVars>>

Solve == SolveWith(SolveM, SolveE, SolveTolerance, SolveMaxIter)

\* A propagation that stores the propagated anomaly in the record it was given.
PropagateInPlace ==
    \E dt \in TimeOffsets :
        /\ pc = "idle"
        /\ call' = [op |-> "propagate_mean_anomaly",
                    target_time |-> elements.epoch + dt]
        /\ ret' = propagate_mean_anomaly(elements, elements.epoch + dt)
        /\ elements' = [elements EXCEPT !.mean_anomaly = ret']
        /\ pc' = "returned"
        /\ UNCHANGED <<world, loopVars, auxVars>>

Propagate ==
    \E dt \in TimeOffsets :
        /\ pc = "idle"
        /\ call' = [op |-> "propagate_mean_anomaly",
                    target_time |-> elements.epoch + dt]
        /\ ret' = propagate_mean_anomaly(elements, elements.epoch + dt)
        /\ pc' = "returned"
        /\ UNCHANGED <<elements, world, loopVars, auxVars>>

\* The call returns its CartesianState, or an exception leaves it.
CartesianEnds(el, target_time, outcome) ==
    IF outcome = "value"
    THEN ret' = orbital_elements_to_cartesian(el, target_time) /\ pc' = "returned"
    ELSE ret' = [exception |-> outcome] /\ pc' = "raised"

ToCartesian ==
    \E t \in {elements.epoch + dt : dt \in TimeOffsets} \cup {NoTime} :
        /\ pc = "idle"
        /\ call' = [op |-> "orbital_elements_to_cartesian", target_time |-> t]
        /\ CartesianEnds(elements, t, CartesianOutcome(elements, t))
        /\ UNCHANGED <<elements, world, loopVars, auxVars>>

\* A sampling loop that leaves out the last pass.
SampleOneFewer(i, num_points) == i < num_points - 1

\* `for i in range(num_points)` of line 288: whether pass i is due
SampleContinues(i, num_points) == i < num_points

\* A scan that always evaluates day 0.
ScanAtLeastDayZero(day, days_ahead) == day < days_ahead \/ day = 0

\* A scan that stops as soon as a zero distance has been found.
ScanStopsAtZero(day, days_ahead) == day < days_ahead /\ min_distance # 0

\* `for day in range(days_ahead)` of line 333: whether the pass of `day` is due
ScanContinues(day, days_ahead) == day < days_ahead

\* An entry that leaves `points` as the call before left it.
SampleCallKeepsPoints ==
    \E num_points \in 0..MaxPoints, center_on_earth \in BOOLEAN :
        /\ pc = "idle"
        /\ call' = [op |-> "generate_orbit_points", num_points |-> num_points,
                    center_on_earth |-> center_on_earth, parallel |-> FALSE]
        /\ pc' = "loop"
        /\ idx' = 0
        /\ UNCHANGED <<elements, world, ret, points, min_distance, min_time, scanned,
                       auxVars>>

\* generate_orbit_points: entry (line 281), one pass of the loop of lines
\* 288-309, and the return of line 311.
SampleCall ==
    \E num_points \in 0..MaxPoints, center_on_earth \in BOOLEAN :
        /\ pc = "idle"
        /\ call' = [op |-> "generate_orbit_points", num_points |-> num_points,
                    center_on_earth |-> center_on_earth, parallel |-> FALSE]
        /\ pc' = "loop"
        /\ idx' = 0
        /\ points' = <<>>
        /\ UNCHANGED <<elements, world, ret, min_distance, min_time, scanned, auxVars>>

SampleStep ==
    /\ pc = "loop"
    /\ call.op = "generate_orbit_points"
    /\ SampleContinues(idx, call.num_points)
    /\ points' = Append(points, SamplePoint(elements, idx, call.num_points,
                                            call.center_on_earth))
    /\ idx' = idx + 1
    /\ UNCHANGED <<elements, world, pc, call, ret, min_distance, min_time, scanned,
                   auxVars>>

SampleReturn ==
    /\ pc = "loop"
    /\ call.op = "generate_orbit_points"
    /\ ~SampleContinues(idx, call.num_points)
    /\ ret' = points
    /\ pc' = "returned"
    /\ UNCHANGED <<elements, world, call, loopVars, auxVars>>

\* A comparison that also lets an equal distance replace the minimum.
CloserOrEqual(distance, best) == distance <= best

\* A comparison the wrong way round.
Farther(distance, best) == distance > best

\* `if distance < min_distance` of line 352
Closer(distance, best) == distance < best

\* A running minimum that keeps the time of the first day it saw.
UpdateMinKeepsTime(distance, target_time) ==
    IF distance < min_distance
    THEN min_distance' = distance /\ UNCHANGED min_time
    ELSE UNCHANGED <<min_distance, min_time>>

\* lines 352-354
UpdateMin(distance, target_time) ==
    IF Closer(distance, min_distance)
    THEN min_distance' = distance /\ min_time' = target_time
    ELSE UNCHANGED <<min_distance, min_time>>

\* lines 334-354 for `day`: the running minimum is updated with the distance
\* of the day, and the pass is logged.
ScanPass(day, target_time, distance) ==
    /\ UpdateMin(distance, target_time)
    /\ scanned' = Append(scanned, [day |-> day, time |-> target_time,
                                   distance |-> distance])

\* calculate_close_approach: entry (lines 329-330), one pass of the loop of
\* lines 333-354, and the return of line 356.
ApproachCall ==
    \E days_ahead \in (-1)..MaxDays :
        /\ pc = "idle"
        /\ call' = [op |-> "calculate_close_approach", days_ahead |-> days_ahead,
                    parallel |-> FALSE]
        /\ pc' = "loop"
        /\ idx' = 0
        /\ min_distance' = Inf
        /\ min_time' = elements.epoch
        /\ scanned' = <<>>
        /\ UNCHANGED <<elements, world, ret, points, auxVars>>

ApproachStep ==
    /\ pc = "loop"
    /\ call.op = "calculate_close_approach"
    /\ ScanContinues(idx, call.days_ahead)
    /\ ScanPass(idx, elements.epoch + Days(idx),
                EarthDistance(elements, elements.epoch + Days(idx)))
    /\ idx' = idx + 1
    /\ UNCHANGED <<elements, world, pc, call, ret, points, auxVars>>

ApproachReturn ==
    /\ pc = "loop"
    /\ call.op = "calculate_close_approach"
    /\ ~ScanContinues(idx, call.days_ahead)
    /\ ret' = <<min_time, min_distance>>
    /\ pc' = "returned"
    /\ UNCHANGED <<elements, world, call, loopVars, auxVars>>

\* The caller takes the result (or the exception) and is free to call again.
Finish ==
    /\ pc \in {"returned", "raised"}
    /\ pc' = "idle"
    /\ call' = None
    /\ ret' = None
    /\ idx' = 0
    /\ points' = <<>>
    /\ min_distance' = Inf
    /\ min_time' = 0
    /\ scanned' = <<>>
    /\ slots' = <<>>
    /\ log' = <<>>
    /\ data' = None
    /\ UNCHANGED <<elements, alertVars, catalog, db, memo>>

Next ==
    \/ Propagate
    \/ ToCartesian
    \/ SampleCall
    \/ SampleStep
    \/ SampleReturn
    \/ ApproachCall
    \/ ApproachStep
    \/ ApproachReturn
    \/ Finish

Spec == Init /\ [][Next]_vars

(***************************************************************************)
(* The solver called on its own: solve_kepler_equation is a static method, *)
(* open to any caller with any (M, e, tolerance, max_iter).                *)
(***************************************************************************)
SolverInit ==
    /\ elements = EXAMPLE_ASTEROIDS["apophis"]
    /\ catalog = Catalogs
    /\ AlertsIdle
    /\ pc = "idle"
    /\ call = None
    /\ ret = None
    /\ idx = 0
    /\ points = <<>>
    /\ min_distance = Inf
    /\ min_time = 0
    /\ scanned = <<>>
    /\ slots = <<>>
    /\ memo = None
    /\ log = <<>>
    /\ data = None
    /\ db = <<>>

SolverNext == Solve \/ Finish

SolverSpec == SolverInit /\ [][SolverNext]_vars

\* The Newton iterates E_0 .. E_k of a call, k <= n: E_0 the initial guess, each
\* next one a Newton update of the one before, stopping short of n only where
\* the update is undefined (a zero derivative).
RECURSIVE IteratesFrom(_, _, _, _)
IteratesFrom(acc, M, e, n) ==
    IF n = 0 \/ KeplerFPrime(acc[Len(acc)], e) = 0 THEN acc
    ELSE IteratesFrom(Append(acc, NewtonStep(acc[Len(acc)], M, e)), M, e, n - 1)

Iterates(M, e, n) == IteratesFrom(<<InitialGuess(M, e)>>, M, e, n)

\* |E_k - E_(k-1)| < tolerance, for 1 <= k < Len(it)
SmallStep(it, k, tolerance) == Abs(it[k + 1] - it[k]) < tolerance

SolveEnded == call.op = "solve_kepler_equation" /\ pc \in {"returned", "raised"}

\* C1: every call solve(M, e, tolerance, max_iter) returns, without raising,
\* after at most max_iter Newton updates: at the first update whose step is
\* below the tolerance, and if there is none, with the estimate of the last
\* update.
C1_SolveAlwaysReturns ==
    SolveEnded =>
        /\ pc = "returned"
        /\ ret.iters <= call.max_iter
        /\ LET it == Iterates(call.M, call.e, ret.iters)
           IN  /\ Len(it) = ret.iters + 1
               /\ ret.E = it[ret.iters + 1]
               /\ \A k \in 1..(ret.iters - 1) : ~SmallStep(it, k, call.tolerance)
               /\ \/ ret.iters >= 1 /\ SmallStep(it, ret.iters, call.tolerance)
                  \/ ret.iters = call.max_iter

ZeroDerivativeMet ==
    /\ SolveEnded
    /\ ret.iters < call.max_iter
    /\ LET it == Iterates(call.M, call.e, ret.iters)
       IN  KeplerFPrime(it[Len(it)], call.e) = 0

\* C3: the degenerate case 1 - e cos E = 0 is guarded: when a Newton iterate has
\* a zero derivative no division fault occurs and the call still returns.
C3_DegenerateGuarded == ZeroDerivativeMet => pc = "returned"

(***************************************************************************)
(* Calls repeated.  The caller keeps one earlier call and its outcome, and *)
(* goes on calling without anything being reset in between: whatever a     *)
(* call left behind is there when the next one starts.                     *)
(***************************************************************************)
Remember ==
    /\ pc \in {"returned", "raised"}
    /\ memo = None
    /\ memo' = [op |-> "kept", call |-> call, ret |-> ret, pc |-> pc]
    /\ pc' = "idle"
    /\ call' = None
    /\ ret' = None
    /\ log' = <<>>
    /\ data' = None
    /\ UNCHANGED <<elements, alertVars, catalog, db, loopVars, slots>>

PureSolve ==
    SolveWith({0, PI \div 3, 3 * PI}, {0, 5000, 9500, SCALE},
              {DEFAULT_TOLERANCE}, {DEFAULT_MAX_ITER, 2})

PureInit ==
    /\ Init
    /\ elements.name \in {"99942 Apophis", "twin"}

PureNext ==
    \/ PureSolve
    \/ Propagate
    \/ ToCartesian
    \/ SampleCall
    \/ SampleStep
    \/ SampleReturn
    \/ ApproachCall
    \/ ApproachStep
    \/ ApproachReturn
    \/ Remember
    \/ Finish

PureSpec == PureInit /\ [][PureNext]_vars

\* The call that has just ended has the arguments of the call kept.
RepeatedCall ==
    /\ pc \in {"returned", "raised"}
    /\ memo # None
    /\ memo.call = call

\* C7: every operation is a pure function of its arguments: a call with the
\* arguments of an earlier call ends as that call ended and returns what it
\* returned, whatever calls were made in between.
C7_EqualCallsEqualResults ==
    RepeatedCall => (memo.pc = pc /\ memo.ret = ret)

\* A scan of a full window and a sampling of a full path have each been
\* repeated after another call.
C7_Witness ==
    /\ RepeatedCall
    /\ \/ call.op = "calculate_close_approach" /\ call.days_ahead = MaxDays
       \/ call.op = "generate_orbit_points" /\ call.num_points = MaxPoints
    /\ ret # <<>>

(***************************************************************************)
(* The close-approach scan                                                 *)
(***************************************************************************)
ApproachReturned ==
    call.op = "calculate_close_approach" /\ pc = "returned"

\* C4: for days_ahead >= 1, calculate_close_approach returns (t, d) where
\* t = epoch + k days for some k in [0, days_ahead), d is the distance computed
\* for that day, and d is at most the distance of every scanned day.
C4_ReturnsScannedMinimum ==
    (ApproachReturned /\ call.days_ahead >= 1) =>
        /\ \E k \in 0..(call.days_ahead - 1) :
              /\ ret[1] = elements.epoch + Days(k)
              /\ ret[2] = scanned[k + 1].distance
              /\ ret[2] = EarthDistance(elements, ret[1])
        /\ \A j \in 1..Len(scanned) : ret[2] <= scanned[j].distance

\* A scan of several days has returned a minimum found after the first day.
C4_Witness ==
    /\ ApproachReturned
    /\ call.days_ahead >= 2
    /\ ret[1] > elements.epoch
    /\ \E j \in 1..Len(scanned) : scanned[j].distance > ret[2]

\* C5: the scan evaluates the distance of every day 0 .. days_ahead - 1 exactly
\* once, in increasing order, and never stops before the last day, even after
\* a distance of 0 was found: it ends after exactly days_ahead passes.
C5_ScansEveryDayInOrder ==
    call.op = "calculate_close_approach" =>
        /\ Len(scanned) = idx
        /\ \A j \in 1..Len(scanned) :
              /\ scanned[j].day = j - 1
              /\ scanned[j].time = elements.epoch + Days(j - 1)
        /\ idx <= IF call.days_ahead > 0 THEN call.days_ahead ELSE 0
        /\ pc = "returned" =>
              idx = IF call.days_ahead > 0 THEN call.days_ahead ELSE 0

\* A full scan has returned although a zero distance was met before its last
\* day.
C5_Witness ==
    /\ ApproachReturned
    /\ call.days_ahead = MaxDays
    /\ Len(scanned) = MaxDays
    /\ \E j \in 1..(MaxDays - 1) : scanned[j].distance = 0

(***************************************************************************)
(* The sampled path                                                        *)
(***************************************************************************)
SampleReturned ==
    call.op = "generate_orbit_points" /\ pc = "returned"

\* Perihelion and aphelion distances a(1 - e) and a(1 + e), in km.
Perihelion(el) ==
    Mul(Mul(el.semi_major_axis, SCALE - el.eccentricity), AU_TO_KM)
Aphelion(el) ==
    Mul(Mul(el.semi_major_axis, SCALE + el.eccentricity), AU_TO_KM)

\* Rounding allowance on a heliocentric distance, in units of the km grid.
NormSlack == 16

PointNorm(p) == Norm(p[1], p[2], p[3])

PropagateReturned ==
    call.op = "propagate_mean_anomaly" /\ pc = "returned"

FULL_TURN == 360 * DEG_SCALE

\* Distance of two angles on the circle, in the unit of the degree grid.
CircularDistance(x, y) ==
    LET d == (x - y) % FULL_TURN
    IN  IF d <= FULL_TURN - d THEN d ELSE FULL_TURN - d

\* Rounding allowance of the degree -> radian -> degree round trip: one unit
\* of the radian grid is 5.73 units of the degree grid.
RoundTripSlack == 7

\* C9 as stated: propagation to the epoch returns exactly mean_anomaly mod 360.
C9_EpochExactModulo ==
    (PropagateReturned /\ call.target_time = elements.epoch) =>
        ret = elements.mean_anomaly % FULL_TURN

\* C9: propagate_mean_anomaly(elements, elements.epoch) is mean_anomaly mod 360
\* up to the rounding of the conversion to radians and back, also for mean
\* anomalies that are negative or at least 360; the result lies in [0, 360].
C9_EpochModuloRounded ==
    (PropagateReturned /\ call.target_time = elements.epoch) =>
        /\ CircularDistance(ret, elements.mean_anomaly) <= RoundTripSlack
        /\ 0 <= ret /\ ret <= FULL_TURN

\* Propagation to the epoch has returned for a mean anomaly outside [0, 360),
\* and the result is not exactly the reduced mean anomaly.
C9_Witness ==
    /\ PropagateReturned
    /\ call.target_time = elements.epoch
    /\ elements.mean_anomaly \notin 0..(FULL_TURN - 1)
    /\ ret # elements.mean_anomaly % FULL_TURN

\* (M0 + n dt) mod 2 pi in radians, for the call in progress.
WrappedRadians ==
    LET dt == call.target_time - elements.epoch
        n == (TWO_PI * 100 * TICKS_PER_DAY) \div PeriodDays(elements.semi_major_axis)
    IN  (DegToRad(elements.mean_anomaly) + (n * dt) \div (100 * TICKS_PER_DAY))
            % TWO_PI

\* The number returned, read on the radian grid (no conversion of unit).
AsRadianGrid(x) == x * (SCALE \div DEG_SCALE)

\* C10 as stated: the value returned is (M0 + n dt) mod 2 pi in radians, in
\* [0, 2 pi).
C10_ReturnsRadians ==
    PropagateReturned =>
        /\ Abs(AsRadianGrid(ret) - WrappedRadians) <= SCALE \div DEG_SCALE
        /\ 0 <= ret /\ AsRadianGrid(ret) < TWO_PI

\* C10: the value returned is (M0 + n dt) mod 2 pi converted to degrees, in
\* [0, 360], for target times before, at and after the epoch.
C10_ReturnsDegrees ==
    PropagateReturned =>
        /\ ret = RadToDeg(WrappedRadians)
        /\ Abs(DegToRad(ret) - WrappedRadians) <= 1
        /\ 0 <= ret /\ ret <= FULL_TURN

\* Propagation to a time before the epoch has returned more than 2 pi.
C10_Witness ==
    /\ PropagateReturned
    /\ call.target_time < elements.epoch
    /\ AsRadianGrid(ret) > TWO_PI

(***************************************************************************)
(* The loops run out of order.  Each pass of the loop of lines 288-309     *)
(* reads only `elements`, `i` and `num_points`; each pass of the loop of   *)
(* lines 333-354 reads `elements` and `day`, and updates the running       *)
(* minimum (lines 352-354).  Workers run the passes in any order; the      *)
(* points are then put together by index.                                  *)
(***************************************************************************)
Extend(f, k, v) == [j \in DOMAIN f \cup {k} |-> IF j = k THEN v ELSE f[j]]

ParSampleCall ==
    \E num_points \in 0..MaxPoints, center_on_earth \in BOOLEAN :
        /\ pc = "idle"
        /\ call' = [op |-> "generate_orbit_points", num_points |-> num_points,
                    center_on_earth |-> center_on_earth, parallel |-> TRUE]
        /\ pc' = "workers"
        /\ slots' = <<>>
        /\ UNCHANGED <<elements, world, ret, loopVars, memo>>

\* lines 289-309 for one index i not yet done
WorkerSample ==
    /\ pc = "workers"
    /\ call.op = "generate_orbit_points"
    /\ \E i \in 0..(call.num_points - 1) :
          /\ i \notin DOMAIN slots
          /\ slots' = Extend(slots, i, SamplePoint(elements, i, call.num_points,
                                                   call.center_on_earth))
    /\ UNCHANGED <<elements, world, pc, call, ret, loopVars, memo>>

ParSampleCombine ==
    /\ pc = "workers"
    /\ call.op = "generate_orbit_points"
    /\ \A i \in 0..(call.num_points - 1) : i \in DOMAIN slots
    /\ ret' = [j \in 1..call.num_points |-> slots[j - 1]]
    /\ pc' = "returned"
    /\ UNCHANGED <<elements, world, call, loopVars, auxVars>>

ParApproachCall ==
    \E days_ahead \in (-1)..MaxDays :
        /\ pc = "idle"
        /\ call' = [op |-> "calculate_close_approach", days_ahead |-> days_ahead,
                    parallel |-> TRUE]
        /\ pc' = "workers"
        /\ min_distance' = Inf
        /\ min_time' = elements.epoch
        /\ slots' = <<>>
        /\ UNCHANGED <<elements, world, ret, idx, points, scanned, memo>>

\* lines 334-354 for `day`, run by a worker
WorkerPass(day, target_time, distance) ==
    /\ UpdateMin(distance, target_time)
    /\ slots' = Extend(slots, day, distance)

\* lines 334-354 for one day not yet done
WorkerDay ==
    /\ pc = "workers"
    /\ call.op = "calculate_close_approach"
    /\ \E day \in 0..(call.days_ahead - 1) :
          /\ day \notin DOMAIN slots
          /\ WorkerPass(day, elements.epoch + Days(day),
                        EarthDistance(elements, elements.epoch + Days(day)))
    /\ UNCHANGED <<elements, world, pc, call, ret, idx, points, scanned, memo>>

ParApproachCombine ==
    /\ pc = "workers"
    /\ call.op = "calculate_close_approach"
    /\ \A day \in 0..(call.days_ahead - 1) : day \in DOMAIN slots
    /\ ret' = <<min_time, min_distance>>
    /\ pc' = "returned"
    /\ UNCHANGED <<elements, world, call, loopVars, auxVars>>

ParNext ==
    \/ SampleCall
    \/ SampleStep
    \/ SampleReturn
    \/ ApproachCall
    \/ ApproachStep
    \/ ApproachReturn
    \/ ParSampleCall
    \/ WorkerSample
    \/ ParSampleCombine
    \/ ParApproachCall
    \/ WorkerDay
    \/ ParApproachCombine
    \/ Finish

ParSpec == Init /\ [][ParNext]_vars

\* What the loop of lines 288-309 builds, pass after pass.
SequentialPoints(el, num_points, center_on_earth) ==
    [j \in 1..num_points |-> SamplePoint(el, j - 1, num_points, center_on_earth)]

\* What the loop of lines 333-354 leaves in (min_time, min_distance) after the
\* passes of `day` .. days_ahead - 1, entered with `best`.
RECURSIVE ScanFrom(_, _, _, _)
ScanFrom(el, day, days_ahead, best) ==
    IF day >= days_ahead THEN best
    ELSE LET target_time == el.epoch + Days(day)
             distance == EarthDistance(el, target_time)
         IN  ScanFrom(el, day + 1, days_ahead,
                      IF Closer(distance, best[2])
                      THEN <<target_time, distance>> ELSE best)

SequentialApproach(el, days_ahead) ==
    ScanFrom(el, 0, days_ahead, <<el.epoch, Inf>>)

Returned(op, parallel) ==
    pc = "returned" /\ call.op = op /\ call.parallel = parallel

\* C8 as stated: the passes run in any order give exactly the sequential
\* result: the same sequence of points, the same (time, minimum distance).
C8_AnyOrderSameResult ==
    /\ Returned("generate_orbit_points", TRUE) =>
          ret = SequentialPoints(elements, call.num_points, call.center_on_earth)
    /\ Returned("calculate_close_approach", TRUE) =>
          ret = SequentialApproach(elements, call.days_ahead)

\* The days of the window on which the distance is the minimum returned.
DaysAtMinimum ==
    {day \in 0..(call.days_ahead - 1) :
        EarthDistance(elements, elements.epoch + Days(day)) = ret[2]}

\* C8: the passes run in any order give the same sequence of points and the
\* same minimum distance as the sequential loops; the time returned is that
\* of a day at the minimum distance, the sequential one being the earliest
\* such day, so the pair is the same whenever one day only is at the minimum.
C8_AnyOrderSameUpToTies ==
    /\ Returned("generate_orbit_points", FALSE) =>
          ret = SequentialPoints(elements, call.num_points, call.center_on_earth)
    /\ Returned("generate_orbit_points", TRUE) =>
          ret = SequentialPoints(elements, call.num_points, call.center_on_earth)
    /\ Returned("calculate_close_approach", FALSE) =>
          /\ ret = SequentialApproach(elements, call.days_ahead)
          /\ \A day \in DaysAtMinimum : ret[1] <= elements.epoch + Days(day)
    /\ Returned("calculate_close_approach", TRUE) =>
          LET seq == SequentialApproach(elements, call.days_ahead)
          IN  /\ ret[2] = seq[2]
              /\ seq[1] <= ret[1]
              /\ call.days_ahead >= 1 =>
                    \E day \in DaysAtMinimum : ret[1] = elements.epoch + Days(day)
              /\ Cardinality(DaysAtMinimum) <= 1 => ret = seq

\* Workers have run the days of a full window out of order and the time
\* returned is a later day than the sequential one, at the same distance.
C8_Witness ==
    /\ Returned("calculate_close_approach", TRUE)
    /\ call.days_ahead = MaxDays
    /\ ret[2] = SequentialApproach(elements, call.days_ahead)[2]
    /\ ret[1] > SequentialApproach(elements, call.days_ahead)[1]

(***************************************************************************)
(* Positions                                                               *)
(***************************************************************************)
CartesianReturned ==
    call.op = "orbital_elements_to_cartesian" /\ pc = "returned"

\* The record has e = 0, i = 0, Omega = 0, omega = 0, a = 1 AU and M = 0.
CircularAtOrigin(el) ==
    /\ el.semi_major_axis = SCALE
    /\ el.eccentricity = 0
    /\ el.inclination = 0
    /\ el.longitude_ascending_node = 0
    /\ el.argument_perihelion = 0
    /\ el.mean_anomaly = 0

\* C11: for e = 0, i = 0, Omega = 0, omega = 0, a = 1 AU and M = 0,
\* orbital_elements_to_cartesian at the epoch, given explicitly or by leaving
\* the target time out, returns the position (a * AU_TO_KM, 0, 0).
C11_CircularAtEpoch ==
    (/\ CartesianReturned
     /\ CircularAtOrigin(elements)
     /\ call.target_time \in {NoTime, elements.epoch}) =>
        ret = [x |-> Mul(elements.semi_major_axis, AU_TO_KM), y |-> 0, z |-> 0]

\* The position of the circular record has been returned for a call that left
\* the target time out.
C11_Witness ==
    /\ CartesianReturned
    /\ CircularAtOrigin(elements)
    /\ call.target_time = NoTime
    /\ ret.x = AU_TO_KM

(***************************************************************************)
(* An object on the orbit of the model Earth                               *)
(***************************************************************************)
\* Distance of two angles on the circle, in the unit of the radian grid.
PhaseDistance(x, y) ==
    LET d == (x - y) % TWO_PI
    IN  IF d <= TWO_PI - d THEN d ELSE TWO_PI - d

\* The angle of the object from the x axis at target_time, for a circular
\* orbit in the ecliptic: Omega + omega + M.
ObjectPhase(el, target_time) ==
    DegToRad(el.longitude_ascending_node + el.argument_perihelion
             + propagate_mean_anomaly(el, target_time))

\* Allowance on a coincidence of phases, in units of the radian grid, and on
\* a distance "near 0", in units of the km grid.
PhaseSlack == 3
NearZero == 16

InPhase(el, target_time) ==
    PhaseDistance(ObjectPhase(el, target_time), EarthAngle(target_time))
        <= PhaseSlack

\* a = 1 AU, e = 0, i = 0, and the phase of the model Earth at the epoch.
EarthTwin(el) ==
    /\ el.semi_major_axis = SCALE
    /\ el.eccentricity = 0
    /\ el.inclination = 0
    /\ InPhase(el, el.epoch)

\* C12: for an object with the circular elements of the model Earth (a = 1 AU,
\* e = 0, i = 0) and its phase at the epoch, calculate_close_approach returns
\* a minimum distance near 0, at a day on which the two phases coincide.
C12_TwinMeetsEarth ==
    (ApproachReturned /\ call.days_ahead >= 1 /\ EarthTwin(elements)) =>
        /\ ret[2] <= NearZero
        /\ InPhase(elements, ret[1])

\* The scan of a full window has returned for a twin whose window runs over
\* 1 January, where the angle of the model Earth starts again from 0.
C12_Witness ==
    /\ ApproachReturned
    /\ call.days_ahead = MaxDays
    /\ EarthTwin(elements)
    /\ YearOf(elements.epoch) < YearOf(elements.epoch + Days(MaxDays - 1))
    /\ \E j \in 1..Len(scanned) : scanned[j].distance > NearZero

(***************************************************************************)
(* Frame: what the engine leaves alone.  No statement of lines 171-356     *)
(* assigns to a field of `elements` or to an entry of a module-level table.*)
(***************************************************************************)
\* C13: no call of propagate_mean_anomaly, orbital_elements_to_cartesian,
\* generate_orbit_points or calculate_close_approach, and no step of their
\* loops, changes a field of the OrbitalElements record passed in (mean
\* anomaly and epoch included) or an entry of EXAMPLE_ASTEROIDS or
\* KNOWN_ASTEROID_ORBITS; results are returned as new values.
C13_InputsNeverChange ==
    [][elements' = elements /\ catalog' = catalog]_vars

\* A propagation has returned an anomaly other than the stored one for a
\* record that is an entry of the example catalog, and the entry and the
\* record still hold the stored anomaly.
C13_Witness ==
    /\ PropagateReturned
    /\ elements = catalog.EXAMPLE_ASTEROIDS["apophis"]
    /\ catalog = Catalogs
    /\ ret # elements.mean_anomaly
    /\ elements.mean_anomaly = 180 * DEG_SCALE

(***************************************************************************)
(* Lookups: get_example_asteroid (orbital_mechanics.py 400-402) and        *)
(* sbdb_client.py (NASASBDBClient 16-151, get_orbital_elements 224-248).   *)
(* A designation is a sequence of one-character strings; a parsed JSON     *)
(* object is a function from its keys.                                     *)
(***************************************************************************)
UPPERCASE == <<"A", "B", "C", "D", "E", "F", "G", "H", "I", "J", "K", "L", "M",
               "N", "O", "P", "Q", "R", "S", "T", "U", "V", "W", "X", "Y", "Z">>
LOWERCASE == <<"a", "b", "c", "d", "e", "f", "g", "h", "i", "j", "k", "l", "m",
               "n", "o", "p", "q", "r", "s", "t", "u", "v", "w", "x", "y", "z">>

\* str.lower on one character: a capital becomes its small letter, any
\* other character stays
LowerChar(c) ==
    IF \E k \in 1..Len(UPPERCASE) : UPPERCASE[k] = c
    THEN LOWERCASE[CHOOSE k \in 1..Len(UPPERCASE) : UPPERCASE[k] = c]
    ELSE c

UpperChar(c) ==
    IF \E k \in 1..Len(LOWERCASE) : LOWERCASE[k] = c
    THEN UPPERCASE[CHOOSE k \in 1..Len(LOWERCASE) : LOWERCASE[k] = c]
    ELSE c

\* A lookup that uses the designation as it was typed.
AsTyped(designation) == designation

\* designation.lower() (sbdb_client.py line 235), name.lower() (line 402)
Lower(designation) ==
    [k \in 1..Len(designation) |-> LowerChar(designation[k])]

\* the Python string of a sequence of characters
RECURSIVE Str(_)
Str(chars) == IF chars = <<>> THEN "" ELSE Head(chars) \o Str(Tail(chars))

\* dict.get(key, default)
DictGet(dict, key, default) == IF key \in DOMAIN dict THEN dict[key] ELSE default

\* the empty dict
EmptyDict == [k \in {} |-> 0]

\* JSON values of an element: a number (text that float() accepts, in grid
\* units), text that float() rejects, and null
Num(v) == [json |-> "number", v |-> v]
Text == [json |-> "text"]
Null == [json |-> "null"]

\* float(value) raises ValueError on text that is no number, TypeError on None
FloatRaises(value) == value.json # "number"

\* orbital_mechanics.py line 402
get_example_asteroid(tables, name) ==
    DictGet(tables.EXAMPLE_ASTEROIDS, Str(Lower(name)), None)

\* lines 70-73: the list of {"name", "value"} entries as a dict; a later
\* entry of the same name replaces an earlier one
RECURSIVE ElemDict(_)
ElemDict(entries) ==
    IF entries = <<>> THEN EmptyDict
    ELSE [k \in DOMAIN ElemDict(Tail(entries)) \cup {Head(entries).name} |->
            IF k \in DOMAIN ElemDict(Tail(entries))
            THEN ElemDict(Tail(entries))[k]
            ELSE Head(entries).value]

\* line 84: datetime(2000, 1, 1) + (epoch_jd - 2451545.0) * datetime.resolution
\* * 86400000; datetime.resolution * 86400000 is 86.4 seconds, a tenth of a
\* tick
JD_J2000 == 2451545
DEFAULT_EPOCH_JD == 2460000
EpochOfJD(epoch_jd) == NewYear(2000) + (epoch_jd - JD_J2000) \div 10

\* the element names read at lines 89-94, with their defaults
ElementDefaults ==
    [a |-> Num(SCALE), e |-> Num(0), i |-> Num(0), om |-> Num(0),
     w |-> Num(0), ma |-> Num(0)]

\* lines 82-98 with every float() accepted
ParsedRecord(obj, elem_dict, epoch_jd) ==
    Elements(DictGet(obj, "fullname", DictGet(obj, "des", "Unknown")),
             DictGet(elem_dict, "a", ElementDefaults.a).v,
             DictGet(elem_dict, "e", ElementDefaults.e).v,
             DictGet(elem_dict, "i", ElementDefaults.i).v,
             DictGet(elem_dict, "om", ElementDefaults.om).v,
             DictGet(elem_dict, "w", ElementDefaults.w).v,
             DictGet(elem_dict, "ma", ElementDefaults.ma).v,
             EpochOfJD(epoch_jd.v))

\* lines 64-101 for a dict: None when a float() raises (line 99)
ParseDict(obj, orbit, elem_dict) ==
    IF \/ FloatRaises(DictGet(orbit, "epoch", Num(DEFAULT_EPOCH_JD)))
       \/ \E k \in DOMAIN ElementDefaults :
              FloatRaises(DictGet(elem_dict, k, ElementDefaults[k]))
    THEN None
    ELSE ParsedRecord(obj, elem_dict,
                      DictGet(orbit, "epoch", Num(DEFAULT_EPOCH_JD)))

\* NASASBDBClient.parse_orbital_elements (54-101) of a JSON object
parse_orbital_elements(body) ==
    ParseDict(DictGet(body, "object", EmptyDict),
              DictGet(body, "orbit", EmptyDict),
              ElemDict(DictGet(DictGet(body, "orbit", EmptyDict), "elements", <<>>)))

\* a parsed JSON list (not empty)
JsonList == [json |-> "list"]

\* `if data:` of line 243
Truthy(value) == value # None /\ DOMAIN value # {}

\* What the service may answer to one request: no answer (transport error),
\* an error status, a body that is no JSON, a JSON list, or a JSON object.
FullOrbit ==
    [object |-> [fullname |-> "(2024 YR4)"],
     orbit |-> [epoch |-> Num(2460600),
                elements |-> << [name |-> "e", value |-> Num(6616)],
                                [name |-> "a", value |-> Num(25160)],
                                [name |-> "i", value |-> Num(3408)],
                                [name |-> "om", value |-> Num(271366)],
                                [name |-> "w", value |-> Num(134361)],
                                [name |-> "ma", value |-> Num(40403)] >>]]

Bodies ==
    { EmptyDict,
      [code |-> "200", message |-> "specified object was not found"],
      [object |-> [des |-> "2024 YR4"]],
      FullOrbit,
      [orbit |-> [elements |-> << [name |-> "a", value |-> Text] >>]],
      [orbit |-> [elements |-> << [name |-> "a", value |-> Null] >>]],
      [orbit |-> [elements |-> << [name |-> "a", value |-> Num(25000)] >>]] }

Responses ==
    { [kind |-> "transport_error"], [kind |-> "http_error"],
      [kind |-> "not_json"], [kind |-> "json_list"] }
        \cup { [kind |-> "json", body |-> b] : b \in Bodies }

\* The designations a caller types: the spellings, in every mix of capitals
\* and small letters, of a key of each table and of an object in neither.
Spellings(lower) ==
    { [k \in 1..Len(lower) |-> IF k \in caps THEN UpperChar(lower[k]) ELSE lower[k]] :
        caps \in SUBSET (1..Len(lower)) }

Designations ==
    Spellings(<<"e", "r", "o", "s">>)
        \cup Spellings(<<"4", "3", "3", " ", "e", "r", "o", "s">>)
        \cup Spellings(<<"2", "0", "2", "4", " ", "y", "r", "4">>)

Event(name) == [event |-> name]

\* get_example_asteroid(name), lines 400-402
ExampleLookup ==
    \E name \in Designations :
        /\ pc = "idle"
        /\ call' = [op |-> "get_example_asteroid", designation |-> name]
        /\ ret' = get_example_asteroid(catalog, name)
        /\ pc' = "returned"
        /\ UNCHANGED <<elements, world, loopVars, auxVars>>

\* get_orbital_elements, lines 235-237: the table is looked up under the
\* lower-cased designation, and a hit is returned at once
LookupCall ==
    \E designation \in Designations :
        /\ pc = "idle"
        /\ call' = [op |-> "get_orbital_elements", designation |-> designation]
        /\ log' = <<Event("table")>>
        /\ IF Str(Lower(designation)) \in DOMAIN catalog.KNOWN_ASTEROID_ORBITS
           THEN /\ ret' = catalog.KNOWN_ASTEROID_ORBITS[Str(Lower(designation))]
                /\ pc' = "returned"
           ELSE /\ pc' = "create_client"
                /\ UNCHANGED ret
        /\ UNCHANGED <<elements, alertVars, catalog, data, db, loopVars, auxVars>>

\* line 240: client = NASASBDBClient()
CreateClient ==
    /\ pc = "create_client"
    /\ log' = Append(log, Event("create"))
    /\ pc' = "request"
    /\ UNCHANGED <<elements, alertVars, catalog, data, db, call, ret, loopVars, auxVars>>

\* line 242 with get_asteroid_data (29-52): the request carries the
\* designation as given; an httpx.HTTPError gives None (lines 50-52), a body
\* that is no JSON raises out of response.json() (line 49)
Request ==
    \E response \in Responses :
        /\ pc = "request"
        /\ log' = Append(log, [event |-> "request", sstr |-> call.designation,
                               response |-> response])
        /\ CASE response.kind \in {"transport_error", "http_error"} ->
                  data' = None /\ pc' = "got_data"
             [] response.kind = "not_json" ->
                  data' = None /\ pc' = "closing_raise"
             [] response.kind = "json_list" ->
                  data' = JsonList /\ pc' = "got_data"
             [] response.kind = "json" ->
                  data' = response.body /\ pc' = "got_data"
        /\ UNCHANGED <<elements, alertVars, catalog, db, call, ret, loopVars, auxVars>>

\* lines 243-244 and 248: a truthy answer is parsed and the result returned;
\* a JSON list has no .get (line 65) and the AttributeError is not caught
Parse ==
    /\ pc = "got_data"
    /\ IF ~Truthy(data) THEN ret' = None /\ pc' = "closing_return"
       ELSE IF data = JsonList THEN ret' = None /\ pc' = "closing_raise"
       ELSE ret' = parse_orbital_elements(data) /\ pc' = "closing_return"
    /\ UNCHANGED <<elements, world, call, loopVars, auxVars>>

\* A lookup that closes the client only on the way to a return.
CloseOnReturnOnly ==
    /\ pc \in {"closing_return", "closing_raise"}
    /\ log' = IF pc = "closing_return" THEN Append(log, Event("close")) ELSE log
    /\ pc' = IF pc = "closing_return" THEN "returned" ELSE "raised"
    /\ UNCHANGED <<elements, alertVars, catalog, data, db, call, ret, loopVars, auxVars>>

\* lines 245-246: finally: client.close()
Close ==
    /\ pc \in {"closing_return", "closing_raise"}
    /\ log' = Append(log, Event("close"))
    /\ pc' = IF pc = "closing_return" THEN "returned" ELSE "raised"
    /\ UNCHANGED <<elements, alertVars, catalog, data, db, call, ret, loopVars, auxVars>>

LookupInit ==
    /\ Init
    /\ elements = EXAMPLE_ASTEROIDS["eros"]

LookupNext ==
    \/ ExampleLookup
    \/ LookupCall
    \/ CreateClient
    \/ Request
    \/ Parse
    \/ Close
    \/ Remember
    \/ Finish

LookupSpec == LookupInit /\ [][LookupNext]_vars

(***************************************************************************)
(* Lookups: letter case                                                    *)
(***************************************************************************)
\* the same character, or the capital and the small form of one letter
SameLetter(c, d) ==
    \/ c = d
    \/ \E k \in 1..Len(UPPERCASE) : {c, d} = {UPPERCASE[k], LOWERCASE[k]}

DiffersOnlyInCase(s, t) ==
    /\ Len(s) = Len(t)
    /\ \A k \in 1..Len(s) : SameLetter(s[k], t[k])

LookupEnded(op) == call.op = op /\ pc \in {"returned", "raised"}

\* Two lookups by one function whose designations differ in letter case only
\* (or not at all) have ended, the earlier one remembered.
LookupRepeated(op) ==
    /\ LookupEnded(op)
    /\ memo # None
    /\ memo.call.op = op
    /\ DiffersOnlyInCase(memo.call.designation, call.designation)

InFallbackTable(designation) ==
    Str(Lower(designation)) \in DOMAIN KNOWN_ASTEROID_ORBITS

InExampleTable(designation) ==
    Str(Lower(designation)) \in DOMAIN EXAMPLE_ASTEROIDS

\* the record stored under the lower-cased designation is what a lookup of a
\* key returns
StoredRecordReturned ==
    /\ (LookupEnded("get_example_asteroid") /\ InExampleTable(call.designation)) =>
           (pc = "returned"
            /\ ret = EXAMPLE_ASTEROIDS[Str(Lower(call.designation))])
    /\ (LookupEnded("get_orbital_elements") /\ InFallbackTable(call.designation)) =>
           (pc = "returned"
            /\ ret = KNOWN_ASTEROID_ORBITS[Str(Lower(call.designation))])

\* C14 as stated: for designations that differ only in letter case,
\* get_example_asteroid returns the same and get_orbital_elements returns the
\* same, whatever the designation; a lookup of a key returns the stored record.
C14_CaseInsensitiveEverywhere ==
    /\ LookupRepeated("get_example_asteroid") => (memo.pc = pc /\ memo.ret = ret)
    /\ LookupRepeated("get_orbital_elements") => (memo.pc = pc /\ memo.ret = ret)
    /\ StoredRecordReturned

\* C14: for designations that differ only in letter case,
\* get_example_asteroid returns the same, and get_orbital_elements returns
\* the same when the lower-cased designation is a key of the fallback table;
\* a lookup of a key returns the stored record.  (A designation that is no
\* key is sent to the service as it was typed, and what comes back is the
\* service's answer to that request.)
C14_CaseInsensitiveInTable ==
    /\ LookupRepeated("get_example_asteroid") => (memo.pc = pc /\ memo.ret = ret)
    /\ (LookupRepeated("get_orbital_elements") /\ InFallbackTable(call.designation)) =>
           (memo.pc = pc /\ memo.ret = ret)
    /\ StoredRecordReturned

\* "433 eros" typed in two spellings, neither in lower case, was looked up
\* twice in the fallback table and the stored record came back.
C14_Witness ==
    /\ LookupRepeated("get_orbital_elements")
    /\ InFallbackTable(call.designation)
    /\ call.designation # memo.call.designation
    /\ Lower(call.designation) \notin {call.designation, memo.call.designation}
    /\ ret = KNOWN_ASTEROID_ORBITS["433 eros"]

(***************************************************************************)
(* Lookups: failure of the live lookup, and the order of the two sources   *)
(***************************************************************************)
\* the answer has no list of orbital elements, or an empty one
NoOrbitalElements(response) ==
    \/ response.kind \in {"not_json", "json_list"}
    \/ /\ response.kind = "json"
       /\ DictGet(DictGet(response.body, "orbit", EmptyDict), "elements", <<>>) = <<>>

LookupFailed(response) ==
    \/ response.kind \in {"transport_error", "http_error"}
    \/ NoOrbitalElements(response)

\* C15: when the designation is not in the fallback table and the live
\* lookup fails (transport or HTTP error, or an answer without orbital
\* elements), get_orbital_elements returns None: no record is produced.
C15_FailedLookupReturnsNone ==
    \A k \in 1..Len(log) :
        ( /\ LookupEnded("get_orbital_elements")
          /\ ~InFallbackTable(call.designation)
          /\ log[k].event = "request"
          /\ LookupFailed(log[k].response) ) =>
            (pc = "returned" /\ ret = None)

\* C17: in every call of get_orbital_elements the request to the service is
\* sent before the fallback table is consulted.
C17_ServiceBeforeTable ==
    LookupEnded("get_orbital_elements") =>
        \E i \in 1..Len(log) :
            /\ log[i].event = "request"
            /\ \A j \in 1..Len(log) : log[j].event = "table" => i < j

(***************************************************************************)
(* Records outside the domain of the ellipse: e >= 1 or a <= 0.            *)
(* OrbitalElements is a plain dataclass (lines 27-56, no __post_init__):   *)
(* any numbers make a record.                                              *)
(***************************************************************************)
InvalidOrbit(el) == el.eccentricity >= SCALE \/ el.semi_major_axis <= 0

InvalidElementsSet ==
    { el \in { Elements("unvalidated", a, e, 10000, 20000, 30000, M, NewYear(2024)) :
                   a \in {-SCALE, 0, SCALE, 2 * SCALE},
                   e \in {0, 1911, SCALE, SCALE + 1, 15000, 3 * SCALE},
                   M \in {0, 45 * DEG_SCALE, 180 * DEG_SCALE} } :
        InvalidOrbit(el) }

InvalidInit ==
    /\ elements \in InvalidElementsSet
    /\ catalog = Catalogs
    /\ AlertsIdle
    /\ pc = "idle"
    /\ call = None
    /\ ret = None
    /\ idx = 0
    /\ points = <<>>
    /\ min_distance = Inf
    /\ min_time = 0
    /\ scanned = <<>>
    /\ slots = <<>>
    /\ memo = None
    /\ log = <<>>
    /\ data = None
    /\ db = <<>>

InvalidNext == ToCartesian \/ Finish

InvalidSpec == InvalidInit /\ [][InvalidNext]_vars

CartesianEnded ==
    call.op = "orbital_elements_to_cartesian" /\ pc \in {"returned", "raised"}

\* C16 as stated: a record with e >= 1 or a <= 0 can be constructed, and
\* orbital_elements_to_cartesian on it yields a value: no error is raised.
C16_InvalidYieldsValue ==
    (CartesianEnded /\ InvalidOrbit(elements)) => pc = "returned"

\* C16: a record with e >= 1 or a <= 0 can be constructed, since nothing
\* validates it, and orbital_elements_to_cartesian on it yields no value: the
\* call ends in the ValueError or the ZeroDivisionError of the arithmetic it
\* attempts, not in a validation error.
C16_InvalidRaisesArithmeticError ==
    (CartesianEnded /\ InvalidOrbit(elements)) =>
        /\ pc = "raised"
        /\ ret.exception \in {"ValueError", "ZeroDivisionError"}

\* A record with a > 0 and e = 1 was constructed and the conversion at a time
\* after the epoch has ended in ZeroDivisionError.
C16_Witness ==
    /\ CartesianEnded
    /\ elements.eccentricity = SCALE
    /\ elements.semi_major_axis > 0
    /\ call.target_time > elements.epoch
    /\ pc = "raised"
    /\ ret = [exception |-> "ZeroDivisionError"]

(***************************************************************************)
(* mitigation.py: recommend_mitigation (141-199)                           *)
(***************************************************************************)
\* MitigationType (11-19)
KINETIC_IMPACTOR == "kinetic_impactor"
GRAVITY_TRACTOR == "gravity_tractor"
NUCLEAR_STANDOFF == "nuclear_standoff"
ION_BEAM == "ion_beam"
LASER_ABLATION == "laser_ablation"
EVACUATION == "evacuation"
MONITORING == "monitoring_only"

\* STRATEGIES (36-138): the method and the name of each entry
STRATEGIES ==
    [t \in {KINETIC_IMPACTOR, GRAVITY_TRACTOR, NUCLEAR_STANDOFF, ION_BEAM,
            LASER_ABLATION, EVACUATION, MONITORING} |->
        [primary_method |-> t,
         name |-> CASE t = KINETIC_IMPACTOR -> "Kinetic Impactor"
                    [] t = GRAVITY_TRACTOR -> "Gravity Tractor"
                    [] t = NUCLEAR_STANDOFF -> "Nuclear Standoff Detonation"
                    [] t = ION_BEAM -> "Ion Beam Deflection"
                    [] t = LASER_ABLATION -> "Laser Ablation"
                    [] t = EVACUATION -> "Civil Defense / Evacuation"
                    [] t = MONITORING -> "Continued Monitoring"]]

\* line 165: the warning time assumed when none is given
ASSUMED_DAYS == 3650

\* A long-warning rule that sends every object under 200 m to the tractor.
LongWarningWide(diameter_m) ==
    IF diameter_m < 200 THEN GRAVITY_TRACTOR ELSE KINETIC_IMPACTOR

\* lines 191-199: five years or more of warning
LongWarning(diameter_m) ==
    IF diameter_m < 150 THEN GRAVITY_TRACTOR
    ELSE IF diameter_m < 300 THEN KINETIC_IMPACTOR
    ELSE IF diameter_m < 500 THEN KINETIC_IMPACTOR
    ELSE KINETIC_IMPACTOR

\* lines 168-199 for a known warning time
MethodFor(diameter_m, days) ==
    IF days < 180
    THEN (IF diameter_m > 300 THEN NUCLEAR_STANDOFF ELSE EVACUATION)
    ELSE IF days < 730
    THEN (IF diameter_m > 500 THEN NUCLEAR_STANDOFF ELSE KINETIC_IMPACTOR)
    ELSE IF days < 1825
    THEN (IF diameter_m < 200 THEN KINETIC_IMPACTOR
          ELSE IF diameter_m < 500 THEN KINETIC_IMPACTOR
          ELSE NUCLEAR_STANDOFF)
    ELSE LongWarning(diameter_m)

\* time_to_impact_days = NoTime stands for None (unknown)
recommend_mitigation(diameter_m, time_to_impact_days, risk_level, velocity_kms) ==
    IF risk_level = "Low" THEN STRATEGIES[MONITORING]
    ELSE STRATEGIES[MethodFor(diameter_m,
                              IF time_to_impact_days = NoTime THEN ASSUMED_DAYS
                              ELSE time_to_impact_days)]

\* Arguments on both sides of every threshold of the table.
Diameters == {0, 50, 149, 150, 151, 199, 200, 299, 300, 301, 499, 500, 501, 1000}
WarningDays == {NoTime, 0, 90, 179, 180, 729, 730, 1824, 1825, 3000}
RiskLevels == {"Low", "Medium", "High", "low"}
Velocities == {5, 15, 20, 30}

Recommend ==
    \E diameter_m \in Diameters, days \in WarningDays, risk_level \in RiskLevels,
       velocity_kms \in Velocities :
        /\ pc = "idle"
        /\ call' = [op |-> "recommend_mitigation", diameter_m |-> diameter_m,
                    time_to_impact_days |-> days, risk_level |-> risk_level,
                    velocity_kms |-> velocity_kms]
        /\ ret' = recommend_mitigation(diameter_m, days, risk_level, velocity_kms)
        /\ pc' = "returned"
        /\ UNCHANGED <<elements, world, loopVars, auxVars>>

MitigationNext == Recommend \/ Finish

MitigationSpec == LookupInit /\ [][MitigationNext]_vars

MitigationReturned == call.op = "recommend_mitigation" /\ pc = "returned"

\* C18: risk_level "Low" gives MONITORING whatever the other arguments; for
\* any other risk level, fewer than 180 days with a diameter over 300 m gives
\* NUCLEAR_STANDOFF, and 1825 days or more give GRAVITY_TRACTOR under 150 m
\* and KINETIC_IMPACTOR from 150 m to under 500 m.
C18_DecisionTable ==
    MitigationReturned =>
        /\ call.risk_level = "Low" => ret.primary_method = MONITORING
        /\ ( /\ call.risk_level # "Low"
             /\ call.time_to_impact_days # NoTime
             /\ call.time_to_impact_days < 180
             /\ call.diameter_m > 300 ) => ret.primary_method = NUCLEAR_STANDOFF
        /\ ( /\ call.risk_level # "Low"
             /\ call.time_to_impact_days >= 1825
             /\ call.diameter_m < 150 ) => ret.primary_method = GRAVITY_TRACTOR
        /\ ( /\ call.risk_level # "Low"
             /\ call.time_to_impact_days >= 1825
             /\ call.diameter_m >= 150
             /\ call.diameter_m < 500 ) => ret.primary_method = KINETIC_IMPACTOR

\* A 150 m object at high risk with exactly 1825 days of warning got the
\* kinetic impactor.
C18_Witness ==
    /\ MitigationReturned
    /\ call.risk_level = "High"
    /\ call.time_to_impact_days = 1825
    /\ call.diameter_m = 150
    /\ ret = STRATEGIES[KINETIC_IMPACTOR]

(***************************************************************************)
(* historical.py: compare_to_historical (96-159)                           *)
(***************************************************************************)
\* HISTORICAL_IMPACTS (26-93), in the order of the list: name and diameter
HISTORICAL_IMPACTS ==
    << [name |-> "Chicxulub Impact", diameter_m |-> 10000],
       [name |-> "Tunguska Event", diameter_m |-> 50],
       [name |-> "Chelyabinsk Meteor", diameter_m |-> 20],
       [name |-> "Barringer Crater", diameter_m |-> 50],
       [name |-> "Vredefort Crater", diameter_m |-> 15000],
       [name |-> "Sudbury Basin", diameter_m |-> 15000] >>

\* lines 119-122: min() by |x.diameter_m - diameter_m|, the first of the list
\* among equals
Nearest(impacts, diameter_m) ==
    impacts[CHOOSE k \in 1..Len(impacts) :
                \A j \in 1..Len(impacts) :
                    /\ Abs(impacts[j].diameter_m - diameter_m)
                           >= Abs(impacts[k].diameter_m - diameter_m)
                    /\ j < k => Abs(impacts[j].diameter_m - diameter_m)
                                    > Abs(impacts[k].diameter_m - diameter_m)]

\* lines 125-142
Severity(diameter_m) ==
    IF diameter_m < 25 THEN "Minor"
    ELSE IF diameter_m < 50 THEN "City Destroyer"
    ELSE IF diameter_m < 140 THEN "Regional"
    ELSE IF diameter_m < 300 THEN "Continental"
    ELSE IF diameter_m < 1000 THEN "Global"
    ELSE "Extinction Level"

\* round(n / den, k) as a whole number of 10^-k, n already scaled by 10^k:
\* to the nearest, a half to the even neighbour
RoundHalfEven(n, den) ==
    IF 2 * (n % den) < den THEN n \div den
    ELSE IF 2 * (n % den) > den THEN n \div den + 1
    ELSE IF (n \div den) % 2 = 0 THEN n \div den
    ELSE n \div den + 1

\* lines 114-116 and 145: the energy in hundredths of a megaton,
\* d^3 * v^2 * 1.8771e-5, rounded down to the grid at each product
EstimatedEnergy(diameter_m, velocity_kms) ==
    MulDiv(MulDiv(diameter_m * diameter_m * diameter_m,
                  velocity_kms * velocity_kms, 100000),
           18771, 10000)

\* lines 144-159: ratios in tenths (vs_chicxulub in ten-thousandths)
compare_to_historical(diameter_m, velocity_kms, impact_probability) ==
    [estimated_energy_mt |-> EstimatedEnergy(diameter_m, velocity_kms),
     severity_class |-> Severity(diameter_m),
     nearest_analog |-> Nearest(HISTORICAL_IMPACTS, diameter_m),
     size_comparison |->
         [vs_chelyabinsk |-> RoundHalfEven(diameter_m * 10, 20),
          vs_tunguska |-> RoundHalfEven(diameter_m * 10, 50),
          vs_chicxulub |-> RoundHalfEven(diameter_m * 10000, 10000)]]

\* Diameters on both sides of every class limit, and between the diameters
\* of the two smallest impacts; probabilities in percent.
ComparedDiameters ==
    {10, 20, 24, 25, 35, 36, 48, 50, 52, 139, 140, 298, 300, 999, 1000}
Probabilities == {0, 50, 80, 100}

Compare ==
    \E diameter_m \in ComparedDiameters, velocity_kms \in Velocities,
       impact_probability \in Probabilities :
        /\ pc = "idle"
        /\ call' = [op |-> "compare_to_historical", diameter_m |-> diameter_m,
                    velocity_kms |-> velocity_kms,
                    impact_probability |-> impact_probability]
        /\ ret' = compare_to_historical(diameter_m, velocity_kms, impact_probability)
        /\ pc' = "returned"
        /\ UNCHANGED <<elements, world, loopVars, auxVars>>

HistoricalNext == Compare \/ Finish

HistoricalSpec == LookupInit /\ [][HistoricalNext]_vars

CompareReturned == call.op = "compare_to_historical" /\ pc = "returned"

\* C19: for the diameter of Tunguska, 50 m, and any velocity and impact
\* probability, compare_to_historical returns severity_class "City Destroyer"
\* and size_comparison.vs_tunguska = 1.0.
C19_TunguskaSizeIsCityDestroyer ==
    (CompareReturned /\ call.diameter_m = 50) =>
        /\ ret.severity_class = "City Destroyer"
        /\ ret.size_comparison.vs_tunguska = 10

(***************************************************************************)
(* api/main.py: the schema AsteroidInput (34-72) and POST /predict         *)
(* (predict_risk 318-377, predict_risk_internal 242-288).  A request body  *)
(* that fails the schema is answered 422 by the framework before the       *)
(* handler runs.                                                           *)
(***************************************************************************)
\* lines 40, 46, 52, 58, 70: the limits of the schema
MAX_DISTANCE_KM == 400000000
MAX_VELOCITY_KMS == 72
MAX_DIAMETER_M == 1000000
MAX_ANGLE_DEG == 90
MIN_DISTANCE_KM == 100

\* A velocity field without its upper limit.
VelocityUnbounded(v) == v > 0

\* lines 37-42 (gt=0, le=4e8) and the validator of lines 67-72
DistanceAllowed(v) == v > 0 /\ v <= MAX_DISTANCE_KM /\ ~(v < MIN_DISTANCE_KM)

\* lines 43-48: gt=0, le=72
VelocityAllowed(v) == v > 0 /\ v <= MAX_VELOCITY_KMS

\* lines 49-54: gt=0, le=1000000
DiameterAllowed(v) == v > 0 /\ v <= MAX_DIAMETER_M

\* lines 55-60: ge=0, le=90
AngleAllowed(v) == v >= 0 /\ v <= MAX_ANGLE_DEG

\* AsteroidInput accepts the body
Accepted(body) ==
    /\ DistanceAllowed(body.distance_km)
    /\ VelocityAllowed(body.velocity_kms)
    /\ DiameterAllowed(body.diameter_m)
    /\ AngleAllowed(body.trajectory_angle_deg)

Min(x, y) == IF x < y THEN x ELSE y

\* lines 259-269: the rule-based score, in units of 1/SCALE
RiskScore(body) ==
    ( 4 * (SCALE - Min(MulDiv(body.distance_km, SCALE, 10000000), SCALE))
      + 3 * Min((body.velocity_kms * SCALE) \div 40, SCALE)
      + 2 * Min(MulDiv(body.diameter_m, SCALE, 1000), SCALE)
      + (SCALE - (body.trajectory_angle_deg * SCALE) \div 90) ) \div 10

\* lines 271-276
RiskLevelOf(risk_score) ==
    IF risk_score < 3500 THEN "Low"
    ELSE IF risk_score < 6500 THEN "Medium"
    ELSE "High"

\* line 278: the confidence of a rule-based prediction
RULE_CONFIDENCE == 7000

\* predict_risk_internal (242-288): the rule-based prediction when no model
\* is loaded; with a model loaded, a label and a probability the model gives
\* (here a label the rule does not give for these bodies), or an exception
\* out of it
Predictions(body) ==
    { [risk_level |-> RiskLevelOf(RiskScore(body)),
       impact_probability |-> RiskScore(body),
       confidence |-> RULE_CONFIDENCE, model_version |-> "rule-based"] }
    \cup { [risk_level |-> label, impact_probability |-> 9000,
            confidence |-> 9000, model_version |-> "2.0.0"] :
              label \in {"Low"} }
    \cup { [raised |-> "Exception"] }

\* the id an autoincrement primary key gives the next row
NextId(rows) ==
    IF rows = <<>> THEN 1
    ELSE 1 + CHOOSE m \in {rows[k].id : k \in 1..Len(rows)} :
                 \A k \in 1..Len(rows) : rows[k].id <= m

\* the largest value of a set of naturals, 0 for the empty set
Largest(S) == IF S = {} THEN 0 ELSE CHOOSE m \in S : \A x \in S : x <= m

\* models.py line 21: a new row's timestamp is the clock (datetime.utcnow)
\* at the insert; two inserts may read the same value
Timestamps(rows) ==
    { Largest({rows[k].timestamp : k \in 1..Len(rows)}) + step : step \in {0, 1} }

\* How far ids and timestamps run.
MaxId == 3
MaxStamp == 2

\* lines 347-356: the row stored for a prediction
PredictionRecord(rows, body, prediction, timestamp) ==
    [id |-> NextId(rows), timestamp |-> timestamp,
     distance_km |-> body.distance_km,
     velocity_kms |-> body.velocity_kms, diameter_m |-> body.diameter_m,
     trajectory_angle_deg |-> body.trajectory_angle_deg,
     risk_level |-> prediction.risk_level,
     impact_probability |-> prediction.impact_probability, source |-> "api"]

\* lines 360-373
PredictionResponse(body, prediction) ==
    [status |-> 200, risk_level |-> prediction.risk_level,
     impact_probability |-> prediction.impact_probability,
     confidence |-> prediction.confidence, input_summary |-> body,
     model_version |-> prediction.model_version]

\* How many rows the table may hold.
MaxHistory == 2

\* Request bodies on both sides of every limit of the schema.
RequestBodies ==
    [distance_km : {-5, 0, 50, 99, 100}, velocity_kms : {72, 73},
     diameter_m : {0, 100}, trajectory_angle_deg : {-1, 0, 90, 91}]

\* The handler of lines 328-377 for an accepted body and a prediction: an
\* exception is answered 500 (lines 375-377), else the row is stored and the
\* prediction answered.
Handle(body, prediction) ==
    IF "raised" \in DOMAIN prediction
    THEN ret' = [status |-> 500] /\ UNCHANGED db
    ELSE /\ \E timestamp \in Timestamps(db) :
                /\ timestamp <= MaxStamp
                /\ db' = Append(db, PredictionRecord(db, body, prediction, timestamp))
         /\ ret' = PredictionResponse(body, prediction)

\* POST /predict
Predict ==
    \E body \in RequestBodies :
        /\ pc = "idle"
        /\ Len(db) < MaxHistory
        /\ NextId(db) <= MaxId
        /\ call' = [op |-> "POST /predict", body |-> body]
        /\ IF Accepted(body)
           THEN \E prediction \in Predictions(body) : Handle(body, prediction)
           ELSE ret' = [status |-> 422] /\ UNCHANGED db
        /\ pc' = "returned"
        /\ UNCHANGED <<elements, alertVars, catalog, log, data, loopVars, auxVars>>

\* line 444: the most rows one answer holds
MAX_LIMIT == 100

\* line 429: the limit of a request that names none
DEFAULT_LIMIT == 50

\* lines 441-442: the rows the filter keeps (no filter when risk_level is
\* None or empty)
Filtered(rows, risk_level) ==
    IF risk_level = "" THEN rows
    ELSE SelectSeq(rows, LAMBDA r : r.risk_level = risk_level)

\* the sequences holding each row of rows once
Orderings(rows) ==
    { [k \in 1..Len(rows) |-> rows[p[k]]] :
        p \in { q \in [1..Len(rows) -> 1..Len(rows)] :
                  \A i, j \in 1..Len(rows) : i # j => q[i] # q[j] } }

\* line 439: ORDER BY timestamp DESC; rows of one timestamp come in any order
ByTimestampDesc(rows) ==
    { o \in Orderings(rows) :
        \A k \in 1..(Len(o) - 1) : o[k].timestamp >= o[k + 1].timestamp }

\* line 444: LIMIT n as the database applies it.  SQLite reads a negative
\* LIMIT as no limit; PostgreSQL refuses it.
Limited(rows, n) ==
    IF n >= 0 THEN { [records |-> SubSeq(rows, 1, Min(n, Len(rows)))] }
    ELSE { [records |-> rows], [raised |-> "DataError"] }

\* lines 446-461
HistoryResponse(result) ==
    IF "raised" \in DOMAIN result THEN [status |-> 500]
    ELSE [status |-> 200, count |-> Len(result.records),
          predictions |-> result.records]

\* the limit parameters of a request
Limits == {-1, 0, 1, 2, 3, DEFAULT_LIMIT, MAX_LIMIT, MAX_LIMIT + 1}

\* GET /predictions/history (lines 427-461)
History ==
    \E limit \in Limits, risk_level \in {"", "Low", "High"} :
        /\ pc = "idle"
        /\ call' = [op |-> "GET /predictions/history", limit |-> limit,
                    risk_level |-> risk_level]
        /\ \E ordered \in ByTimestampDesc(Filtered(db, risk_level)) :
             \E result \in Limited(ordered, Min(limit, MAX_LIMIT)) :
                ret' = HistoryResponse(result)
        /\ pc' = "returned"
        /\ UNCHANGED <<elements, world, loopVars, auxVars>>

\* The bodies of the asteroids of a batch: one the schema accepts and one it
\* does not.
BatchBodies ==
    { body \in RequestBodies :
        /\ body.distance_km \in {50, 100}
        /\ body.velocity_kms = 72
        /\ body.diameter_m = 100
        /\ body.trajectory_angle_deg = 0 }

\* How many asteroids a batch of the model holds.
MaxBatch == 2

\* line 103: at most 100 asteroids, each an AsteroidInput
MAX_BATCH_LENGTH == 100

BatchAccepted(asteroids) ==
    /\ Len(asteroids) <= MAX_BATCH_LENGTH
    /\ \A k \in 1..Len(asteroids) : Accepted(asteroids[k])

\* lines 391-397: one prediction for each asteroid of the batch
BatchPredictions(asteroids) ==
    { f \in [1..Len(asteroids) ->
                UNION {Predictions(asteroids[k]) : k \in 1..Len(asteroids)}] :
        \A k \in 1..Len(asteroids) : f[k] \in Predictions(asteroids[k]) }

\* lines 399-424; an exception out of a prediction is not caught here and is
\* answered by the handler of lines 529-536
BatchResponse(asteroids, predictions) ==
    IF \E k \in 1..Len(asteroids) : "raised" \in DOMAIN predictions[k]
    THEN [status |-> 500]
    ELSE [status |-> 200,
          predictions |-> [k \in 1..Len(asteroids) |->
                              PredictionResponse(asteroids[k], predictions[k])],
          total_count |-> Len(asteroids),
          high_risk_count |->
              Cardinality({k \in 1..Len(asteroids) :
                              predictions[k].risk_level = "High"})]

\* POST /predict/batch (lines 380-424)
Batch ==
    \E n \in 0..MaxBatch :
      \E asteroids \in [1..n -> BatchBodies] :
        /\ pc = "idle"
        /\ call' = [op |-> "POST /predict/batch", asteroids |-> asteroids]
        /\ IF BatchAccepted(asteroids)
           THEN \E predictions \in BatchPredictions(asteroids) :
                    ret' = BatchResponse(asteroids, predictions)
           ELSE ret' = [status |-> 422]
        /\ pc' = "returned"
        /\ UNCHANGED <<elements, world, loopVars, auxVars>>

\* the rows whose id is not prediction_id
Without(rows, prediction_id) ==
    SelectSeq(rows, LAMBDA r : r.id # prediction_id)

\* DELETE /predictions/{prediction_id} (lines 464-481): 404 for an id no row
\* has; else the row is deleted and the delete committed, and then the call
\* logger.info("prediction_deleted", prediction_id=...) of line 479 raises
\* TypeError (the logger is a logging.Logger at level INFO, utils/logging.py
\* lines 33-34), which the handler of lines 529-536 answers with 500
Delete ==
    \E prediction_id \in 0..(MaxId + 1) :
        /\ pc = "idle"
        /\ call' = [op |-> "DELETE /predictions/{prediction_id}",
                    prediction_id |-> prediction_id]
        /\ IF \E k \in 1..Len(db) : db[k].id = prediction_id
           THEN /\ db' = Without(db, prediction_id)
                /\ ret' = [status |-> 500]
           ELSE /\ ret' = [status |-> 404]
                /\ UNCHANGED db
        /\ pc' = "returned"
        /\ UNCHANGED <<elements, alertVars, catalog, log, data, loopVars, auxVars>>

\* DELETE /predictions (lines 484-494): every row is deleted and the delete
\* committed; logger.info("predictions_cleared", count=count) of line 492
\* then raises TypeError, answered with 500, and line 494 is not reached
Clear ==
    /\ pc = "idle"
    /\ call' = [op |-> "DELETE /predictions"]
    /\ db' = <<>>
    /\ ret' = [status |-> 500]
    /\ pc' = "returned"
    /\ UNCHANGED <<elements, alertVars, catalog, log, data, loopVars, auxVars>>

\* lines 504-507 and 511: the number of rows of each risk level that has rows
ByRiskLevel(rows) ==
    [level \in {rows[k].risk_level : k \in 1..Len(rows)} |->
        Cardinality({k \in 1..Len(rows) : rows[k].risk_level = level})]

\* GET /stats (lines 497-513)
Stats ==
    /\ pc = "idle"
    /\ call' = [op |-> "GET /stats"]
    /\ ret' = [status |-> 200, total_predictions |-> Len(db),
               by_risk_level |-> ByRiskLevel(db)]
    /\ pc' = "returned"
    /\ UNCHANGED <<elements, world, loopVars, auxVars>>

ApiNext ==
    \/ Predict
    \/ Batch
    \/ History
    \/ Delete
    \/ Clear
    \/ Stats
    \/ Finish

ApiSpec == LookupInit /\ [][ApiNext]_vars

\* the body is one the claim speaks of
OutOfRange(body) ==
    \/ body.distance_km <= 0
    \/ body.distance_km < 100
    \/ body.velocity_kms > 72
    \/ body.trajectory_angle_deg < 0
    \/ body.trajectory_angle_deg > 90

\* C20: POST /predict answers 422 to every request whose distance_km is <= 0
\* or below 100, whose velocity_kms is over 72 or whose trajectory_angle_deg
\* is outside [0, 90], and computes and stores no prediction for it.
C20_OutOfRangeRejected ==
    [][ (pc = "idle" /\ call'.op = "POST /predict" /\ OutOfRange(call'.body)) =>
            (ret' = [status |-> 422] /\ db' = db) ]_vars

\* A request with a velocity of 73 km/s and every other field in range was
\* answered 422 while the table held an earlier prediction.
C20_Witness ==
    /\ call.op = "POST /predict"
    /\ pc = "returned"
    /\ call.body.velocity_kms = 73
    /\ DistanceAllowed(call.body.distance_km)
    /\ DiameterAllowed(call.body.diameter_m)
    /\ AngleAllowed(call.body.trajectory_angle_deg)
    /\ ret = [status |-> 422]
    /\ Len(db) = 1

\* GET /predictions/history has answered
HistoryReturned == pc = "returned" /\ call.op = "GET /predictions/history"

\* the records are rows of the table, newest first, and no row the filter
\* keeps and the answer leaves out is newer than a row of the answer
MostRecentFirst(records, rows) ==
    /\ \A k \in 1..Len(records) : \E j \in 1..Len(rows) : rows[j] = records[k]
    /\ \A k \in 1..(Len(records) - 1) :
          records[k].timestamp >= records[k + 1].timestamp
    /\ \A j \in 1..Len(rows) :
          (\A k \in 1..Len(records) : records[k] # rows[j]) =>
              \A k \in 1..Len(records) : records[k].timestamp >= rows[j].timestamp

\* C21: GET /predictions/history returns, for every integer limit and any
\* stored history, a count equal to the number of returned records, which is
\* at most limit and never more than 100, the most recent records first.
C21_HistoryBounded ==
    HistoryReturned =>
        /\ ret.status = 200
        /\ ret.count = Len(ret.predictions)
        /\ ret.count <= call.limit
        /\ ret.count <= MAX_LIMIT
        /\ MostRecentFirst(ret.predictions, Filtered(db, call.risk_level))

(***************************************************************************)
(* features/alerts.py: AlertManager.  check_and_alert (181-209) calls      *)
(* should_alert (59-80), create_alert (82-114) and send_webhook_sync       *)
(* (149-179); the class holds no lock, so callers on several threads run   *)
(* these steps interleaved.  last_alert_time = NoTime stands for None.     *)
(***************************************************************************)
\* line 57
risk_order == [Low |-> 0, Medium |-> 1, High |-> 2]

\* dict.get(level, default) on risk_order (line 70)
RiskOrderGet(level, default) ==
    IF level \in DOMAIN risk_order THEN risk_order[level] ELSE default

\* lines 69-80, with the clock reading t
should_alert(mgr, risk_level, t) ==
    IF RiskOrderGet(risk_level, 0) < RiskOrderGet(mgr.min_risk_level, 2)
    THEN FALSE
    ELSE IF mgr.last_alert_time # NoTime
            /\ t - mgr.last_alert_time < mgr.cooldown_seconds
         THEN FALSE
         ELSE TRUE

\* How far the clock runs, and how many alerts the webhook takes.
MaxClock == 3
MaxAlerts == 2

\* The risk levels callers pass.
AlertLevels == {"Low", "Medium", "High", "Unknown"}

engineVars == <<elements, pc, call, ret, catalog, log, data, db, loopVars, auxVars>>

\* lines 195-204: the caller asks should_alert; on True the alert is created
\* and the caller goes on to send it, on False the call returns None
Check(c) ==
    \E risk_level \in AlertLevels :
        /\ callers[c].pc = "idle"
        /\ Len(sent) < MaxAlerts
        /\ callers' = [callers EXCEPT ![c] =
              IF should_alert(alert_manager, risk_level, now)
              THEN [pc |-> "sending", risk_level |-> risk_level]
              ELSE [pc |-> "done", risk_level |-> risk_level, result |-> "None"]]
        /\ UNCHANGED <<engineVars, alert_manager, now, sent>>

\* lines 159-171 and 177-179: without a webhook URL nothing is sent; else the
\* request is posted, and the webhook accepts it or the post fails
Post(c) ==
    /\ callers[c].pc = "sending"
    /\ \E accepted \in BOOLEAN :
          IF alert_manager.webhook_url # "" /\ accepted
          THEN /\ sent' = Append(sent, [time |-> now, caller |-> c,
                                        risk_level |-> callers[c].risk_level])
               /\ callers' = [callers EXCEPT ![c].pc = "posted"]
          ELSE /\ callers' = [callers EXCEPT ![c] =
                     [pc |-> "done", risk_level |-> callers[c].risk_level,
                      result |-> "None"]]
               /\ UNCHANGED sent
    /\ UNCHANGED <<engineVars, alert_manager, now>>

\* lines 173-175 and 206-207: after the post, the time of the alert is
\* recorded and the alert returned
Stamp(c) ==
    /\ callers[c].pc = "posted"
    /\ alert_manager' = [alert_manager EXCEPT !.last_alert_time = now]
    /\ callers' = [callers EXCEPT ![c] =
          [pc |-> "done", risk_level |-> callers[c].risk_level,
           result |-> "Alert"]]
    /\ UNCHANGED <<engineVars, now, sent>>

\* the caller has its result and may call again
CallerReturn(c) ==
    /\ callers[c].pc = "done"
    /\ callers' = [callers EXCEPT ![c] = [pc |-> "idle"]]
    /\ UNCHANGED <<engineVars, alert_manager, now, sent>>

\* a second passes
Tick ==
    /\ now < MaxClock
    /\ now' = now + 1
    /\ UNCHANGED <<engineVars, alert_manager, callers, sent>>

\* lines 37-57: an AlertManager as a program may construct it
AlertInit ==
    /\ elements = EXAMPLE_ASTEROIDS["eros"]
    /\ catalog = Catalogs
    /\ pc = "idle"
    /\ call = None
    /\ ret = None
    /\ idx = 0
    /\ points = <<>>
    /\ min_distance = Inf
    /\ min_time = 0
    /\ scanned = <<>>
    /\ slots = <<>>
    /\ memo = None
    /\ log = <<>>
    /\ data = None
    /\ db = <<>>
    /\ alert_manager \in [webhook_url : {"", "https://hooks.example/neo"},
                          min_risk_level : {"Low", "Medium", "High", "Critical"},
                          cooldown_seconds : {2},
                          last_alert_time : {NoTime}]
    /\ callers = [c \in Callers |-> [pc |-> "idle"]]
    /\ now = 0
    /\ sent = <<>>

AlertNext ==
    \/ \E c \in Callers : Check(c)
    \/ \E c \in Callers : Post(c)
    \/ \E c \in Callers : Stamp(c)
    \/ \E c \in Callers : CallerReturn(c)
    \/ Tick

AlertSpec == AlertInit /\ [][AlertNext]_vars

\* C22: any two alerts the webhook accepted are at least cooldown_seconds
\* apart, also when callers interleave, and no alert is sent for a risk
\* level below min_risk_level.
C22_AlertsRateLimited ==
    /\ \A i, j \in 1..Len(sent) :
          i < j => sent[j].time - sent[i].time >= alert_manager.cooldown_seconds
    /\ \A i \in 1..Len(sent) :
          RiskOrderGet(sent[i].risk_level, 0)
              >= RiskOrderGet(alert_manager.min_risk_level, 2)

\* C23: solve starts the Newton iteration from E0 = M exactly when e < 0.8
\* and from E0 = pi otherwise (e = 0.8 itself starts from pi), whatever the
\* tolerance; with max_iter = 0 the call returns that initial guess, and a
\* call that made one update returns the update of that guess.
C23_InitialGuess ==
    SolveEnded =>
        /\ call.max_iter = 0 =>
              /\ pc = "returned"
              /\ ret.iters = 0
              /\ ret.E = IF call.e < 8000 THEN call.M ELSE PI
        /\ (pc = "returned" /\ ret.iters = 1) =>
              ret.E = NewtonStep(IF call.e < 8000 THEN call.M ELSE PI,
                                 call.M, call.e)

\* A call with e = 0.8, max_iter = 0 and a mean anomaly other than pi has
\* returned pi.
C23_Witness ==
    /\ SolveEnded
    /\ pc = "returned"
    /\ call.e = 8000
    /\ call.max_iter = 0
    /\ call.M # PI
    /\ ret.E = PI

\* The rotation matrices about the z axis and about the x axis, by rows; an
\* entry -sin is held as the pair of its sign and sin, since in floating
\* point (-s) * y is exactly -(s * y).
Plus(entry) == <<1, entry>>
Minus(entry) == <<-1, entry>>

Rz(angle) ==
    << <<Plus(Cos(angle)), Minus(Sin(angle)), Plus(0)>>,
       <<Plus(Sin(angle)), Plus(Cos(angle)), Plus(0)>>,
       <<Plus(0), Plus(0), Plus(SCALE)>> >>

Rx(angle) ==
    << <<Plus(SCALE), Plus(0), Plus(0)>>,
       <<Plus(0), Plus(Cos(angle)), Minus(Sin(angle))>>,
       <<Plus(0), Plus(Sin(angle)), Plus(Cos(angle))>> >>

\* One product of a matrix entry and a coordinate.
Term(entry, coordinate) == entry[1] * Mul(entry[2], coordinate)

RowTimes(row, v) == Term(row[1], v.x) + Term(row[2], v.y) + Term(row[3], v.z)

MatVec(matrix, v) ==
    [x |-> RowTimes(matrix[1], v), y |-> RowTimes(matrix[2], v),
     z |-> RowTimes(matrix[3], v)]

\* The true anomaly the engine reaches for the record at the target time.
TrueAnomalyAt(el, target_time) ==
    eccentric_to_true_anomaly(
        solve_kepler_equation(
            DegToRad(propagate_mean_anomaly(
                el, IF target_time = NoTime THEN el.epoch ELSE target_time)),
            el.eccentricity, DEFAULT_TOLERANCE, DEFAULT_MAX_ITER).E,
        el.eccentricity)

\* (r cos nu, r sin nu, 0) for the record at true anomaly nu
PlaneVector(el, nu) ==
    [x |-> Mul(orbital_radius(Mul(el.semi_major_axis, AU_TO_KM),
                              el.eccentricity, nu), Cos(nu)),
     y |-> Mul(orbital_radius(Mul(el.semi_major_axis, AU_TO_KM),
                              el.eccentricity, nu), Sin(nu)),
     z |-> 0]

\* Rx(i) Rz(omega) applied to the plane vector
Tilted(el, nu) ==
    MatVec(Rx(DegToRad(el.inclination)),
           MatVec(Rz(DegToRad(el.argument_perihelion)), PlaneVector(el, nu)))

\* C24: orbital_elements_to_cartesian returns Rz(Omega) Rx(i) Rz(omega)
\* applied to (r cos nu, r sin nu, 0): omega first, then i about the x axis,
\* then Omega about the z axis; the last rotation leaves z unchanged, and
\* i = 0 gives z = 0.
C24_RotationOrder ==
    CartesianReturned =>
        /\ ret = MatVec(Rz(DegToRad(elements.longitude_ascending_node)),
                        Tilted(elements, TrueAnomalyAt(elements, call.target_time)))
        /\ ret.z = Tilted(elements, TrueAnomalyAt(elements, call.target_time)).z
        /\ elements.inclination = 0 => ret.z = 0

\* A position of Apophis (i = 3.331 degrees, omega and Omega different) has
\* been returned, off the ecliptic plane.
C24_Witness ==
    /\ CartesianReturned
    /\ elements = EXAMPLE_ASTEROIDS["apophis"]
    /\ elements.argument_perihelion # elements.longitude_ascending_node
    /\ ret.z # 0

\* (AU cos(2 pi k / n), AU sin(2 pi k / n), 0): a function of k and n alone
EarthOnCircle(k, n) ==
    [x |-> Mul(AU_TO_KM, Cos(Mul(((k * SCALE) \div n) * 2, PI))),
     y |-> Mul(AU_TO_KM, Sin(Mul(((k * SCALE) \div n) * 2, PI))),
     z |-> 0]

\* epoch + (k / n) * period
KthSampleTime(el, k, n) ==
    el.epoch + MulDiv(PeriodDays(el.semi_major_axis), (k * SCALE) \div n, SCALE)

\* the point is the state less the offset, coordinate by coordinate
PointIsStateLess(point, state, offset) ==
    /\ point[1] = state.x - offset.x
    /\ point[2] = state.y - offset.y
    /\ point[3] = state.z - offset.z

\* C25: in generate_orbit_points the k-th point (0 <= k < num_points) is the
\* position at epoch + (k / num_points) * period, so the first is at the
\* epoch and epoch + period is never sampled; with center_on_earth the Earth
\* position subtracted from point k is (AU cos(2 pi k / num_points),
\* AU sin(2 pi k / num_points), 0), a function of k and num_points alone
\* that leaves z unchanged.
C25_KthPoint ==
    call.op = "generate_orbit_points" =>
        \A j \in 1..Len(points) :
            /\ j <= call.num_points
            /\ KthSampleTime(elements, 0, call.num_points) = elements.epoch
            /\ KthSampleTime(elements, j - 1, call.num_points)
                  < elements.epoch + PeriodDays(elements.semi_major_axis)
            /\ PointIsStateLess(
                  points[j],
                  orbital_elements_to_cartesian(
                      elements, KthSampleTime(elements, j - 1, call.num_points)),
                  IF call.center_on_earth
                  THEN EarthOnCircle(j - 1, call.num_points)
                  ELSE [x |-> 0, y |-> 0, z |-> 0])

\* An Earth-centred path of MaxPoints points has been returned for a record
\* whose epoch is in late December; its second point is the position a
\* quarter period on less the Earth a quarter turn on.
C25_Witness ==
    /\ SampleReturned
    /\ call.center_on_earth
    /\ call.num_points = MaxPoints
    /\ Len(ret) = MaxPoints
    /\ elements.epoch = LateDecember
    /\ ret = points
    /\ EarthOnCircle(1, MaxPoints).y > 0
    /\ ret[2][2] = orbital_elements_to_cartesian(
                       elements, KthSampleTime(elements, 1, MaxPoints)).y
                   - EarthOnCircle(1, MaxPoints).y

\* The calendar year of a time: the year whose 1 January is the last one not
\* after it.
CalendarYear(t) ==
    CHOOSE y \in 2000..2050 : NewYear(y) <= t /\ t < NewYear(y + 1)

IsLeapYear(y) == (y % 4 = 0 /\ y % 100 # 0) \/ y % 400 = 0

\* whole days from 1 January of the time's calendar year
DayOfYear(t) == (t - NewYear(CalendarYear(t))) \div TICKS_PER_DAY

\* C26: for every day scanned by calculate_close_approach the Earth's phase
\* is 2 pi d / 365.25, d the whole days from 1 January of the scanned date's
\* calendar year: d is in [0, 365], 365 only on 31 December of a leap year,
\* the phase is in [0, 2 pi), and it is 0 on every 1 January in the window.
C26_PhaseFromDayOfYear ==
    call.op = "calculate_close_approach" =>
        \A j \in 1..Len(scanned) :
            /\ DayOfYear(scanned[j].time) \in 0..365
            /\ DayOfYear(scanned[j].time) = 365 =>
                  /\ IsLeapYear(CalendarYear(scanned[j].time))
                  /\ scanned[j].time
                        >= NewYear(CalendarYear(scanned[j].time) + 1) - Days(1)
            /\ scanned[j].distance =
                  Separation(
                      orbital_elements_to_cartesian(elements, scanned[j].time),
                      AngleOfDays(DayOfYear(scanned[j].time)))
            /\ AngleOfDays(DayOfYear(scanned[j].time)) >= 0
            /\ AngleOfDays(DayOfYear(scanned[j].time)) < TWO_PI
            /\ scanned[j].time < NewYear(CalendarYear(scanned[j].time)) + Days(1) =>
                  /\ AngleOfDays(DayOfYear(scanned[j].time)) = 0
                  /\ scanned[j].distance =
                        Separation(
                            orbital_elements_to_cartesian(elements,
                                                          scanned[j].time),
                            0)

\* A scan from noon of 30 December 2024 has returned: it passed day 365 of
\* the leap year and, on the next day, day 0 of 2025.
C26_Witness ==
    /\ ApproachReturned
    /\ elements.epoch = NewYear(2025) - Days(2) + TICKS_PER_DAY \div 2
    /\ Len(scanned) >= 3
    /\ DayOfYear(scanned[2].time) = 365
    /\ DayOfYear(scanned[3].time) = 0
    /\ scanned[3].time > NewYear(2025)

\* the scanned days whose distance is d
DaysAt(d) == {j \in 1..Len(scanned) : scanned[j].distance = d}

\* C27: when several scanned days attain the same minimum distance,
\* calculate_close_approach returns the earliest of them: the returned time
\* is that of the smallest day in [0, days_ahead) whose distance equals the
\* returned minimum.
C27_EarliestOfTiedMinima ==
    (ApproachReturned /\ call.days_ahead >= 1) =>
        /\ DaysAt(ret[2]) # {}
        /\ \A j \in DaysAt(ret[2]) : ret[1] <= scanned[j].time
        /\ \E j \in DaysAt(ret[2]) :
              /\ ret[1] = scanned[j].time
              /\ ret[1] = elements.epoch + Days(j - 1)
              /\ \A i \in DaysAt(ret[2]) : j <= i

\* A scan has returned in which two days attain the minimum, the first of
\* them after day 0; the time returned is that of the first.
C27_Witness ==
    /\ ApproachReturned
    /\ \E i, j \in DaysAt(ret[2]) :
          /\ 1 < i
          /\ i < j
          /\ ret[1] = scanned[i].time
          /\ \A k \in 1..(i - 1) : scanned[k].distance > ret[2]

\* C28: calculate_close_approach with days_ahead <= 0 scans no day and
\* returns (elements.epoch, +infinity) without an error; the distance
\* returned is finite if and only if days_ahead >= 1.
C28_EmptyWindow ==
    call.op = "calculate_close_approach" =>
        /\ pc # "raised"
        /\ call.days_ahead <= 0 => scanned = <<>>
        /\ pc = "returned" =>
              /\ call.days_ahead <= 0 => ret = <<elements.epoch, Inf>>
              /\ ret[2] < Inf <=> call.days_ahead >= 1

\* A scan with days_ahead = -1 has returned the epoch and +infinity, having
\* evaluated no day.
C28_Witness ==
    /\ ApproachReturned
    /\ call.days_ahead = -1
    /\ scanned = <<>>
    /\ ret = <<elements.epoch, Inf>>
    /\ elements.epoch = LateDecember

\* the positions of the log that hold the event
EventsOf(name) == {k \in 1..Len(log) : log[k] = Event(name)}

\* C29: get_orbital_elements creates no client when the lower-cased
\* designation is in the fallback table; otherwise the one client it creates
\* is closed exactly once, after its request, before the function returns or
\* lets an exception out, on every path.
C29_ClientClosedOnce ==
    call.op = "get_orbital_elements" =>
        /\ Cardinality(EventsOf("create")) <= 1
        /\ Cardinality(EventsOf("close")) <= Cardinality(EventsOf("create"))
        /\ Str(Lower(call.designation)) \in DOMAIN catalog.KNOWN_ASTEROID_ORBITS =>
              EventsOf("create") = {}
        /\ pc \in {"returned", "raised"} =>
              IF Str(Lower(call.designation)) \in DOMAIN catalog.KNOWN_ASTEROID_ORBITS
              THEN /\ pc = "returned"
                   /\ EventsOf("close") = {}
              ELSE /\ Cardinality(EventsOf("create")) = 1
                   /\ EventsOf("close") = {Len(log)}
                   /\ \A k \in EventsOf("create") : k < Len(log)

\* A lookup outside the table has let an exception out (the service answered
\* with JSON that is a list) after creating one client and closing it once.
C29_Witness ==
    /\ call.op = "get_orbital_elements"
    /\ pc = "raised"
    /\ data = JsonList
    /\ Cardinality(EventsOf("create")) = 1
    /\ EventsOf("close") = {Len(log)}

\* the ids of the rows
IdsOf(rows) == {rows[k].id : k \in 1..Len(rows)}

\* C30: the stored history changes only as follows: a successful POST
\* /predict adds exactly one record, DELETE /predictions/{id} removes exactly
\* the record with that id (and answers 404, removing nothing, for an id no
\* record has), DELETE /predictions removes all records and reports their
\* number, and /predict/batch, /predictions/history, /stats and rejected
\* requests leave the history unchanged.
C30_HistoryAccounting ==
    [][ /\ Cardinality(IdsOf(db')) = Len(db')
        /\ pc' # "returned" => db' = db
        /\ pc' = "returned" =>
            CASE call'.op = "POST /predict" ->
                   IF ret'.status = 200
                   THEN /\ Len(db') = Len(db) + 1
                        /\ SubSeq(db', 1, Len(db)) = db
                        /\ db'[Len(db')].id \notin IdsOf(db)
                        /\ db'[Len(db')].distance_km = call'.body.distance_km
                        /\ db'[Len(db')].risk_level = ret'.risk_level
                   ELSE db' = db
              [] call'.op = "DELETE /predictions/{prediction_id}" ->
                   IF call'.prediction_id \in IdsOf(db)
                   THEN /\ db' = Without(db, call'.prediction_id)
                        /\ Len(db') = Len(db) - 1
                   ELSE db' = db /\ ret'.status = 404
              [] call'.op = "DELETE /predictions" ->
                   /\ db' = <<>>
                   /\ ret'.status = 200
                   /\ ret'.count = Len(db)
              [] OTHER -> db' = db ]_vars

====
